---- MODULE Spec2Model ----
(***************************************************************************)
(* Conversational command engine of cameroon-voice-ai.                     *)
(*                                                                         *)
(* One conversation of app/core/conversation: the ConversationManager      *)
(* routes each user message either to the active flow (process, then       *)
(* complete) or to the intent handlers; the flows read and write the       *)
(* ConversationState, which the ConversationStore persists between turns.  *)
(*                                                                         *)
(* A step of the model is one call of process_message.  User texts are     *)
(* real strings and the extractors are computed on their characters.  The  *)
(* response text of a turn is not part of the state: handlers are modelled *)
(* by their effect on ConversationState, by the backend calls they make    *)
(* and by how they leave process_message (return or raise).                *)
(*                                                                         *)
(* state.py declares fewer flow types and steps than the manager and the   *)
(* flows use, and no lang field; ConversationState is modelled with every  *)
(* member the manager and the flows refer to.  to_dict and from_dict are   *)
(* modelled as written, so lang is not persisted.  Looking up and          *)
(* formatting prompt texts is not modelled.                                *)
(***************************************************************************)
EXTENDS Integers, Sequences, FiniteSets, Bags, TLC

(***************************************************************************)
(* Program constants                                                       *)
(***************************************************************************)
max_attempts == 3
WITHDRAWAL_MIN == 500
WITHDRAWAL_MAX == 500000
TOPUP_MIN == 500
TOPUP_MAX == 2000000
MIN_AGE == 18
MAX_AGE == 120
MIN_PHONE_DIGITS == 8

(***************************************************************************)
(* FlowType, FlowStep and Intent                                           *)
(***************************************************************************)

FlowType == {"none", "account_creation", "withdrawal", "topup", "transfer", "dashboard",
             "password_reset", "password_change", "whatsapp_link"}

\* flow_step = None
NoStep == "no_step"

FlowStep == {"confirm", "complete", "ask_name", "ask_age", "ask_sex", "ask_groupement",
             "ask_amount", "ask_receiver", "ask_pin", "ask_dashboard_action",
             "ask_old_password", "ask_new_password", "confirm_password",
             "ask_whatsapp_choice", "ask_whatsapp_number"}

\* the steps that ask the user for one value
AskSteps == FlowStep \ {"confirm", "complete"}


(***************************************************************************)
(* Strings                                                                 *)
(***************************************************************************)
Char(t, i) == SubSeq(t, i, i)

DigitChars == {"0", "1", "2", "3", "4", "5", "6", "7", "8", "9"}

LetterChars == {"a", "b", "c", "d", "e", "f", "g", "h", "i", "j", "k", "l", "m",
                "n", "o", "p", "q", "r", "s", "t", "u", "v", "w", "x", "y", "z"}

\* Python: w in t
Contains(w, t) ==
    \E i \in 1..(Len(t) - Len(w) + 1) : SubSeq(t, i, i + Len(w) - 1) = w

ContainsAny(ws, t) == \E w \in ws : Contains(w, t)

\* Python: t.isdigit()
IsDigitStr(t) == Len(t) > 0 /\ \A i \in 1..Len(t) : Char(t, i) \in DigitChars

\* Python: int(t) of a digit string
RECURSIVE ParseInt(_)
ParseInt(t) ==
    LET DigitVal(c) ==
            CASE c = "0" -> 0 [] c = "1" -> 1 [] c = "2" -> 2 [] c = "3" -> 3
              [] c = "4" -> 4 [] c = "5" -> 5 [] c = "6" -> 6 [] c = "7" -> 7
              [] c = "8" -> 8 [] c = "9" -> 9
    IN  IF Len(t) = 0 THEN 0
        ELSE 10 * ParseInt(SubSeq(t, 1, Len(t) - 1)) + DigitVal(Char(t, Len(t)))

\* Python: "".join(ch for ch in t if ch.isdigit())
RECURSIVE DigitsOf(_)
DigitsOf(t) ==
    IF Len(t) = 0 THEN ""
    ELSE (IF Char(t, 1) \in DigitChars THEN Char(t, 1) ELSE "")
         \o DigitsOf(SubSeq(t, 2, Len(t)))

\* Python: t.replace(" ", "")
RECURSIVE RemoveSpaces(_)
RemoveSpaces(t) ==
    IF Len(t) = 0 THEN ""
    ELSE (IF Char(t, 1) = " " THEN "" ELSE Char(t, 1))
         \o RemoveSpaces(SubSeq(t, 2, Len(t)))

\* positions where a run of digits starts
DigitStarts(t) ==
    {i \in 1..Len(t) : Char(t, i) \in DigitChars
                       /\ (i = 1 \/ Char(t, i - 1) \notin DigitChars)}

\* positions where a run of digits starts at a word boundary (regex \b\d)
BoundaryDigitStarts(t) ==
    {i \in 1..Len(t) : Char(t, i) \in DigitChars
                       /\ (i = 1 \/ Char(t, i - 1) \notin (DigitChars \cup LetterChars))}

Least(S) == CHOOSE i \in S : \A j \in S : i <= j

\* the digits from position i on, at most n of them (regex \d{1,n}; n = 0: \d+)
RECURSIVE DigitRun(_, _, _)
DigitRun(t, i, n) ==
    IF i > Len(t) \/ Char(t, i) \notin DigitChars \/ n = 1
    THEN (IF i <= Len(t) /\ Char(t, i) \in DigitChars THEN Char(t, i) ELSE "")
    ELSE Char(t, i) \o DigitRun(t, i + 1, IF n = 0 THEN 0 ELSE n - 1)

\* the words of t (Python: t.split())
RECURSIVE Words(_)
Words(t) ==
    IF Len(t) = 0 THEN << >>
    ELSE IF Char(t, 1) = " " THEN Words(SubSeq(t, 2, Len(t)))
    ELSE LET ends == {i \in 1..Len(t) : Char(t, i) = " "}
             e == IF ends = {} THEN Len(t) + 1 ELSE Least(ends)
         IN  << SubSeq(t, 1, e - 1) >> \o Words(SubSeq(t, e, Len(t)))

(***************************************************************************)
(* DataExtractor (app/core/extraction/extractors.py).  User texts are      *)
(* lower-case ASCII without leading or trailing blanks, so lower() and     *)
(* strip() leave them as they are; they hold no decimal separators,        *)
(* currency words or multi-word fillers.  An absent result (None) is ""    *)
(* for a string and NoInt for a number.                                    *)
(***************************************************************************)
NoInt == -1

RECURSIVE DropWords(_, _)
DropWords(ws, drop) ==
    IF Len(ws) = 0 THEN << >>
    ELSE (IF Head(ws) \in drop THEN << >> ELSE << Head(ws) >>)
         \o DropWords(Tail(ws), drop)

RECURSIVE JoinWords(_)
JoinWords(ws) ==
    IF Len(ws) = 0 THEN ""
    ELSE IF Len(ws) = 1 THEN Head(ws)
    ELSE Head(ws) \o " " \o JoinWords(Tail(ws))

\* str.capitalize on a lower-case word: the first letter in upper case
capitalize(w) ==
    LET UpperOf(c) ==
            CASE c = "a" -> "A" [] c = "b" -> "B" [] c = "c" -> "C" [] c = "d" -> "D"
              [] c = "e" -> "E" [] c = "f" -> "F" [] c = "g" -> "G" [] c = "h" -> "H"
              [] c = "i" -> "I" [] c = "j" -> "J" [] c = "k" -> "K" [] c = "l" -> "L"
              [] c = "m" -> "M" [] c = "n" -> "N" [] c = "o" -> "O" [] c = "p" -> "P"
              [] c = "q" -> "Q" [] c = "r" -> "R" [] c = "s" -> "S" [] c = "t" -> "T"
              [] c = "u" -> "U" [] c = "v" -> "V" [] c = "w" -> "W" [] c = "x" -> "X"
              [] c = "y" -> "Y" [] c = "z" -> "Z" [] OTHER -> c
    IN  IF Len(w) = 0 THEN w ELSE UpperOf(Char(w, 1)) \o SubSeq(w, 2, Len(w))

\* DataExtractor.extract_name, "" when there is none
extract_name(t) ==
    LET fillers == {"um", "uh", "like", "so", "well", "okay", "ok", "my", "name",
                    "is", "i'm", "it's"}
        allowed == LetterChars \cup {" ", "-", "'", "."}
        ws == DropWords(Words(t), fillers)
        cleaned == JoinWords(ws)
    IN  IF Len(cleaned) = 0 THEN ""
        ELSE IF (\A i \in 1..Len(cleaned) : Char(cleaned, i) \in allowed)
                /\ Len(ws) >= 1 /\ Len(ws) <= 5
             THEN JoinWords([i \in 1..Len(ws) |-> capitalize(ws[i])])
             ELSE ""

extract_age(t) ==
    LET fillers == {"my", "age", "is", "i'm", "years", "year", "old"}
        cleaned == JoinWords(DropWords(Words(t), fillers))
        starts == BoundaryDigitStarts(cleaned)
        first == IF starts = {} THEN NoInt
                 ELSE ParseInt(DigitRun(cleaned, Least(starts), 3))
        whole == IF IsDigitStr(cleaned) THEN ParseInt(cleaned) ELSE NoInt
    IN  IF first >= 1 /\ first <= 150 THEN first
        ELSE IF whole >= 1 /\ whole <= 150 THEN whole
        ELSE NoInt

extract_sex(t) ==
    LET male == {"male", "man", "boy", "homme", "masculin", "garcon", "m", "h"}
        female == {"female", "woman", "girl", "femme", "fille", "f"}
    IN  IF ContainsAny(male, t) THEN "M"
        ELSE IF ContainsAny(female, t) THEN "F"
        ELSE ""

\* id, str(id), name.lower(), token.lower() and name of each groupement
GROUPEMENTS ==
    << [id |-> 1, idstr |-> "1", name |-> "batoufam", token |-> "mbip tswefap",
        label |-> "Batoufam"],
       [id |-> 2, idstr |-> "2", name |-> "fondjomekwet", token |-> "mbam",
        label |-> "Fondjomekwet"],
       [id |-> 3, idstr |-> "3", name |-> "bameka", token |-> "munkap",
        label |-> "Bameka"] >>

extract_groupement(t) ==
    LET First(P(_)) ==
            LET hits == {i \in 1..Len(GROUPEMENTS) : P(GROUPEMENTS[i])}
            IN  IF hits = {} THEN NoInt ELSE GROUPEMENTS[Least(hits)].id
        ById(g) == Contains(g.idstr, t)
        ByName(g) == Contains(g.name, t)
        ByToken(g) == Contains(g.token, t)
    IN  IF First(ById) # NoInt THEN First(ById)
        ELSE IF First(ByName) # NoInt THEN First(ByName)
        ELSE First(ByToken)

\* the first number of the text, when it is positive
extract_amount(t) ==
    LET starts == DigitStarts(t)
        amount == IF starts = {} THEN NoInt
                  ELSE ParseInt(DigitRun(t, Least(starts), 0))
    IN  IF amount > 0 THEN amount ELSE NoInt

\* True, False or None as "yes", "no", "unclear"
is_confirmation(t) ==
    LET confirmations == {"yes", "yeah", "yep", "yup", "correct", "confirm", "sure",
                          "ok", "okay", "proceed", "oui", "right", "affirmative"}
        denials == {"no", "nope", "nah", "cancel", "stop", "wrong", "incorrect",
                    "nevermind", "never mind", "non", "negative"}
    IN  IF ContainsAny(confirmations, t) THEN "yes"
        ELSE IF ContainsAny(denials, t) THEN "no"
        ELSE "unclear"

(***************************************************************************)
(* Parsers local to the flows                                              *)
(***************************************************************************)
\* TransferFlow._extract_phone, WhatsAppLinkFlow._extract_phone
extract_phone_digits(t) ==
    LET digits == DigitsOf(t)
    IN  IF Len(digits) < MIN_PHONE_DIGITS THEN "" ELSE digits

\* TransferFlow._extract_amount: the first number of the text without blanks
transfer_extract_amount(t) ==
    LET cleaned == RemoveSpaces(t)
        starts == DigitStarts(cleaned)
    IN  IF starts = {} THEN NoInt
        ELSE ParseInt(DigitRun(cleaned, Least(starts), 0))

\* a PIN reader that takes a digit string of any length
extract_pin_any_length(t) ==
    LET pin == RemoveSpaces(t)
    IN  IF IsDigitStr(pin) /\ Len(pin) > 0 THEN pin ELSE ""

\* TransferFlow._extract_pin
extract_pin(t) ==
    LET pin == RemoveSpaces(t)
    IN  IF IsDigitStr(pin) /\ Len(pin) \in {4, 5, 6} THEN pin ELSE ""

\* how the Confirm step of a flow reads the text: "yes", "no" or "unclear".
\* Account creation, withdrawal and top-up use is_confirmation; the other
\* flows test the whole text against their own word sets.
ConfirmAnswer(ft, t) ==
    LET Reading(yes, no) ==
            IF t \in yes THEN "yes" ELSE IF t \in no THEN "no" ELSE "unclear"
    IN  CASE ft \in {"account_creation", "withdrawal", "topup"} -> is_confirmation(t)
          [] ft = "transfer" ->
                Reading({"yes", "y", "ok", "okay", "confirm", "go ahead", "proceed"},
                        {"no", "n", "cancel", "stop"})
          [] ft = "password_reset" ->
                Reading({"yes", "y", "ok", "okay", "confirm", "proceed", "oui", "o",
                         "d'accord", "daccord"},
                        {"no", "n", "cancel", "stop", "non", "annuler", "annule"})
          [] ft = "whatsapp_link" ->
                Reading({"yes", "y", "ok", "okay", "confirm", "oui", "o", "d'accord",
                         "daccord"},
                        {"no", "n", "cancel", "stop", "non", "annuler"})
          [] OTHER -> "unclear"

\* WhatsAppLinkFlow._process_choice: how the choice is read
link_choice(t) ==
    IF t \in {"cancel", "stop", "annuler", "annule"} THEN "cancel"
    ELSE IF t \in {"yes", "y", "ok", "same", "oui", "o", "meme", "pareil"} THEN "same"
    ELSE IF t \in {"different", "diff", "other", "no", "n", "autre", "non"} THEN "different"
    ELSE ""

\* DashboardFlow._extract_action, "" when no keyword is found
extract_action(t) ==
    LET transaction_keywords ==
            {"transactions", "transaction", "history", "my transactions",
             "show transactions", "list transactions", "view transactions",
             "historique", "mes transactions", "voir transactions",
             "afficher transactions", "liste transactions", "1"}
        amount_keywords ==
            {"amount", "total", "sum", "total amount", "transaction amount",
             "montant", "montant total", "somme", "total des transactions", "2"}
        registration_keywords ==
            {"registrations", "registration", "stats", "statistics", "signups",
             "sign ups", "signup stats", "inscriptions", "inscription",
             "statistiques", "stats inscription", "statistiques d'inscription", "3"}
        holder_keywords ==
            {"holders", "holder", "accounts", "account holders", "users", "members",
             "list holders", "detenteurs", "titulaires", "comptes",
             "liste des comptes", "titulaires de comptes", "4"}
    IN  IF ContainsAny(transaction_keywords, t) THEN "view_transactions"
        ELSE IF ContainsAny(amount_keywords, t) THEN "view_transaction_amount"
        ELSE IF ContainsAny(registration_keywords, t) THEN "view_registrations"
        ELSE IF ContainsAny(holder_keywords, t) THEN "view_holders"
        ELSE ""

(***************************************************************************)
(* Language detection and intent classification                            *)
(***************************************************************************)
detect_language(t) ==
    LET french_markers == {"bonjour", "salut", "merci", "compte", "solde", "retrait",
                           "depot", "historique", "transactions", "voir mes",
                           "introuvable"}
    IN  IF Len(t) = 0 THEN "en"
        ELSE IF ContainsAny(french_markers, t) THEN "fr"
        ELSE "en"

\* IntentClassifier.classify on the utterances of the model
classify(t) ==
    CASE t = "create account" -> "account_creation"
      [] t = "view my account" -> "view_account"
      [] t = "withdraw" -> "withdrawal"
      [] t = "deposit" -> "topup"
      [] t = "send money" -> "transfer"
      [] t = "balance" -> "balance_inquiry"
      [] t = "transactions" -> "transaction_history"
      [] t = "holders" -> "dashboard"
      [] t = "reset password" -> "password_reset"
      [] t = "change password" -> "password_change"
      [] t = "link whatsapp" -> "whatsapp_link"
      [] t = "yes" -> "confirmation"
      [] t = "no" -> "denial"
      [] OTHER -> "general_support"

\* what the user may say in a turn
Texts == {"create account", "view my account", "withdraw", "deposit", "send money",
          "balance", "transactions", "holders", "reset password", "change password",
          "link whatsapp", "yes", "no", "maybe",
          "25", "17", "0", "100", "5000", "600000", "690123456"}

\* the denials list of is_confirmation, each keyword as a whole answer
DenialKeywords == {"no", "nope", "nah", "cancel", "stop", "wrong", "incorrect",
                   "nevermind", "never mind", "non", "negative"}

\* every parse of every utterance, computed once
Parse ==
    [t \in Texts \cup DenialKeywords |->
        [name |-> extract_name(t), age |-> extract_age(t), sex |-> extract_sex(t),
         groupement |-> extract_groupement(t), amount |-> extract_amount(t),
         confirmation |-> is_confirmation(t), phone |-> extract_phone_digits(t),
         transfer_amount |-> transfer_extract_amount(t), pin |-> extract_pin(t),
         action |-> extract_action(t), choice |-> link_choice(t),
         answer |-> [ft \in FlowType |-> ConfirmAnswer(ft, t)],
         lang |-> detect_language(t), intent |-> classify(t)]]

(***************************************************************************)
(* ConversationState (app/core/conversation/state.py)                      *)
(***************************************************************************)
NoAccount == "no_account"
NoBalance == -1
NoLang == "no_lang"

\* collected_data: a dictionary from field names to values
EmptyData == << >>

NewState ==
    [flow_type |-> "none", flow_step |-> NoStep, collected_data |-> EmptyData,
     account_id |-> NoAccount, account_balance |-> NoBalance,
     phone_checked |-> FALSE, account_exists |-> FALSE,
     attempts |-> 0, lang |-> NoLang]

\* a reset that forgets to clear what the flow collected and counted
reset_flow_keeps_data(s) == [s EXCEPT !.flow_type = "none", !.flow_step = NoStep]

reset_flow(s) ==
    [s EXCEPT !.flow_type = "none", !.flow_step = NoStep,
              !.collected_data = EmptyData, !.attempts = 0]

start_flow(s, ft, step) ==
    [s EXCEPT !.flow_type = ft, !.flow_step = step,
              !.collected_data = EmptyData, !.attempts = 0]

next_step(s, step) == [s EXCEPT !.flow_step = step, !.attempts = 0]

add_data(s, k, v) ==
    [s EXCEPT !.collected_data =
        [x \in (DOMAIN @) \cup {k} |-> IF x = k THEN v ELSE @[x]]]

\* collected_data.pop(k, None)
pop_data(s, k) ==
    [s EXCEPT !.collected_data = [x \in (DOMAIN @) \ {k} |-> @[x]]]

\* get_data(k), "" when the key is absent
get_data(s, k) == IF k \in DOMAIN s.collected_data THEN s.collected_data[k] ELSE ""

\* a test that takes every state for one without a flow
is_in_flow_never(s) == s.flow_type # s.flow_type

is_in_flow(s) == s.flow_type # "none"

\* increment_attempts: the state it leaves, and the value it returns
increment_attempts(s) == [s EXCEPT !.attempts = @ + 1]
\* a budget test that lets one more attempt through
attempts_exhausted_late(s) == s.attempts > max_attempts

attempts_exhausted(s) == s.attempts >= max_attempts

mark_phone_checked(s, exists) ==
    [s EXCEPT !.phone_checked = TRUE, !.account_exists = exists]

\* to_dict: the fields that are written to the store
to_dict(s) ==
    [flow_type |-> s.flow_type, flow_step |-> s.flow_step,
     collected_data |-> s.collected_data,
     account_id |-> s.account_id, account_balance |-> s.account_balance,
     phone_checked |-> s.phone_checked, account_exists |-> s.account_exists,
     attempts |-> s.attempts]

\* from_dict: the state rebuilt from a stored dictionary
from_dict(d) ==
    [flow_type |-> d.flow_type, flow_step |-> d.flow_step,
     collected_data |-> d.collected_data,
     account_id |-> d.account_id, account_balance |-> d.account_balance,
     phone_checked |-> d.phone_checked, account_exists |-> d.account_exists,
     attempts |-> d.attempts, lang |-> NoLang]

(***************************************************************************)
(* The result of flow.process(text): the state it leaves, the is_complete  *)
(* flag it returns, and the highest value attempts held during the call.   *)
(***************************************************************************)
Result(s, done, peak) == [st |-> s, done |-> done, peak |-> peak]

\* a re-prompt, or an advance to another step: is_complete = False
Continue(s0, s) == Result(s, FALSE, s0.attempts)

\* the flow signals completion
Finish(s0, s) == Result(s, TRUE, s0.attempts)

\* if self.state.increment_attempts(): self.state.reset_flow(); return ..., True
\* return ..., False
Retry(s) ==
    LET s1 == increment_attempts(s)
    IN  IF attempts_exhausted(s1)
        THEN Result(reset_flow(s1), TRUE, s1.attempts)
        ELSE Result(s1, FALSE, s1.attempts)

(***************************************************************************)
(* AccountCreationFlow (flows/account.py)                                  *)
(***************************************************************************)
Account_process(s, t) ==
    LET _process_name ==
            LET name == Parse[t].name
            IN  IF name # ""
                THEN Continue(s, next_step(add_data(s, "full_name", name), "ask_age"))
                ELSE Retry(s)
        _process_age ==
            LET age == Parse[t].age
            IN  IF age # NoInt
                THEN IF age < MIN_AGE THEN Continue(s, s)
                     ELSE IF age > MAX_AGE THEN Continue(s, s)
                     ELSE Continue(s, next_step(add_data(s, "age", age), "ask_sex"))
                ELSE Retry(s)
        _process_sex ==
            LET sex == Parse[t].sex
            IN  IF sex # ""
                THEN Continue(s, next_step(add_data(s, "sex", sex), "ask_groupement"))
                ELSE Retry(s)
        _process_groupement ==
            LET groupement_id == Parse[t].groupement
            IN  IF groupement_id # NoInt
                THEN Continue(s, next_step(
                         add_data(add_data(s, "groupement_id", groupement_id),
                                  "groupement_name", GROUPEMENTS[groupement_id].label),
                         "confirm"))
                ELSE Retry(s)
        _process_confirmation ==
            LET confirmed == Parse[t].confirmation
            IN  IF confirmed = "yes" THEN Finish(s, next_step(s, "complete"))
                ELSE IF confirmed = "no" THEN Continue(s, s)
                ELSE IF Contains("name", t) THEN Continue(s, next_step(s, "ask_name"))
                ELSE IF Contains("age", t) THEN Continue(s, next_step(s, "ask_age"))
                ELSE IF Contains("sex", t) \/ Contains("gender", t)
                     THEN Continue(s, next_step(s, "ask_sex"))
                ELSE IF Contains("groupement", t) \/ Contains("group", t)
                     THEN Continue(s, next_step(s, "ask_groupement"))
                ELSE Continue(s, s)
    IN  CASE s.flow_step = "ask_name" -> _process_name
          [] s.flow_step = "ask_age" -> _process_age
          [] s.flow_step = "ask_sex" -> _process_sex
          [] s.flow_step = "ask_groupement" -> _process_groupement
          [] s.flow_step = "confirm" -> _process_confirmation
          [] OTHER -> Continue(s, s)

(***************************************************************************)
(* WithdrawalFlow (flows/withdrawal.py) and TopUpFlow (flows/topup.py)     *)
(***************************************************************************)
\* a withdrawal that never compares the amount with the cached balance
Withdrawal_process_without_balance(s, t) ==
    LET _process_amount ==
            LET amount == Parse[t].amount
            IN  IF amount # NoInt
                THEN IF amount < WITHDRAWAL_MIN THEN Continue(s, s)
                     ELSE IF amount > WITHDRAWAL_MAX THEN Continue(s, s)
                     ELSE Continue(s, next_step(add_data(s, "amount", amount), "confirm"))
                ELSE Retry(s)
        _process_confirmation ==
            LET confirmed == Parse[t].confirmation
            IN  IF confirmed = "yes" THEN Finish(s, next_step(s, "complete"))
                ELSE IF confirmed = "no"
                     THEN Continue(s, pop_data(next_step(s, "ask_amount"), "amount"))
                ELSE Continue(s, s)
    IN  CASE s.flow_step = "ask_amount" -> _process_amount
          [] s.flow_step = "confirm" -> _process_confirmation
          [] OTHER -> Continue(s, s)

Withdrawal_process(s, t) ==
    LET _process_amount ==
            LET amount == Parse[t].amount
            IN  IF amount # NoInt
                THEN IF amount < WITHDRAWAL_MIN THEN Continue(s, s)
                     ELSE IF amount > WITHDRAWAL_MAX THEN Continue(s, s)
                     ELSE IF s.account_balance # NoBalance /\ amount > s.account_balance
                          THEN Continue(s, s)
                     ELSE Continue(s, next_step(add_data(s, "amount", amount), "confirm"))
                ELSE Retry(s)
        _process_confirmation ==
            LET confirmed == Parse[t].confirmation
            IN  IF confirmed = "yes" THEN Finish(s, next_step(s, "complete"))
                ELSE IF confirmed = "no"
                     THEN Continue(s, pop_data(next_step(s, "ask_amount"), "amount"))
                ELSE Continue(s, s)
    IN  CASE s.flow_step = "ask_amount" -> _process_amount
          [] s.flow_step = "confirm" -> _process_confirmation
          [] OTHER -> Continue(s, s)

TopUp_process(s, t) ==
    LET _process_amount ==
            LET amount == Parse[t].amount
            IN  IF amount # NoInt
                THEN IF amount < TOPUP_MIN THEN Continue(s, s)
                     ELSE IF amount > TOPUP_MAX THEN Continue(s, s)
                     ELSE Continue(s, next_step(add_data(s, "amount", amount), "confirm"))
                ELSE Retry(s)
        _process_confirmation ==
            LET confirmed == Parse[t].confirmation
            IN  IF confirmed = "yes" THEN Finish(s, next_step(s, "complete"))
                ELSE IF confirmed = "no"
                     THEN Continue(s, pop_data(next_step(s, "ask_amount"), "amount"))
                ELSE Continue(s, s)
    IN  CASE s.flow_step = "ask_amount" -> _process_amount
          [] s.flow_step = "confirm" -> _process_confirmation
          [] OTHER -> Continue(s, s)

(***************************************************************************)
(* TransferFlow (flows/transfer.py)                                        *)
(***************************************************************************)
Transfer_process(s, t) ==
    LET _process_receiver ==
            LET receiver == Parse[t].phone
            IN  IF receiver # ""
                THEN Continue(s, next_step(add_data(s, "receiverPhoneNumber", receiver),
                                           "ask_amount"))
                ELSE Retry(s)
        _process_amount ==
            LET amount == Parse[t].transfer_amount
            IN  IF amount # NoInt
                THEN IF amount <= 0 THEN Continue(s, s)
                     ELSE IF s.account_balance # NoBalance /\ amount > s.account_balance
                          THEN Continue(s, s)
                     ELSE Continue(s, next_step(add_data(s, "amount", ToString(amount)), "ask_pin"))
                ELSE Retry(s)
        _process_pin ==
            LET pin == Parse[t].pin
            IN  IF pin # ""
                THEN Continue(s, next_step(add_data(s, "pin", pin), "confirm"))
                ELSE Retry(s)
        _process_confirmation ==
            IF Parse[t].answer["transfer"] = "yes"
            THEN Finish(s, next_step(s, "complete"))
            ELSE IF Parse[t].answer["transfer"] = "no"
                 THEN Continue(s, pop_data(pop_data(next_step(s, "ask_amount"), "amount"), "pin"))
            ELSE Continue(s, s)
    IN  CASE s.flow_step = "ask_receiver" -> _process_receiver
          [] s.flow_step = "ask_amount" -> _process_amount
          [] s.flow_step = "ask_pin" -> _process_pin
          [] s.flow_step = "confirm" -> _process_confirmation
          [] OTHER -> Continue(s, s)

(***************************************************************************)
(* DashboardFlow (flows/dashboard.py)                                      *)
(***************************************************************************)
Dashboard_process(s, t) ==
    LET _process_action_selection ==
            LET action == Parse[t].action
            IN  IF action # ""
                THEN Finish(s, next_step(add_data(s, "dashboard_action", action), "complete"))
                ELSE Retry(s)
    IN  CASE s.flow_step = "ask_dashboard_action" -> _process_action_selection
          [] s.flow_step = "complete" -> Finish(s, s)
          [] OTHER -> Continue(s, s)

(***************************************************************************)
(* PasswordResetFlow (flows/password_reset.py)                             *)
(***************************************************************************)
PasswordReset_process(s, t) ==
    LET _process_confirmation ==
            IF Parse[t].answer["password_reset"] = "yes"
            THEN Finish(s, next_step(s, "complete"))
            ELSE IF Parse[t].answer["password_reset"] = "no" THEN Finish(s, reset_flow(s))
            ELSE Retry(s)
    IN  CASE s.flow_step = "confirm" -> _process_confirmation
          [] s.flow_step = "complete" -> Finish(s, s)
          [] OTHER -> Continue(s, s)

(***************************************************************************)
(* PasswordChangeFlow (flows/password_change.py)                           *)
(***************************************************************************)
PasswordChange_process(s, t) ==
    LET _process_old_password ==
            IF Len(t) >= 4
            THEN Continue(s, next_step(add_data(s, "old_password", t), "ask_new_password"))
            ELSE Retry(s)
        _process_new_password ==
            IF Len(t) >= 6
            THEN Continue(s, next_step(add_data(s, "new_password", t), "confirm_password"))
            ELSE Retry(s)
        _process_confirm_password ==
            IF t = get_data(s, "new_password")
            THEN Finish(s, next_step(s, "complete"))
            ELSE LET s1 == increment_attempts(s)
                 IN  IF attempts_exhausted(s1)
                     THEN Result(reset_flow(s1), TRUE, s1.attempts)
                     ELSE Result(pop_data(next_step(s1, "ask_new_password"), "new_password"),
                                 FALSE, s1.attempts)
    IN  CASE s.flow_step = "ask_old_password" -> _process_old_password
          [] s.flow_step = "ask_new_password" -> _process_new_password
          [] s.flow_step = "confirm_password" -> _process_confirm_password
          [] s.flow_step = "complete" -> Finish(s, s)
          [] OTHER -> Continue(s, s)

(***************************************************************************)
(* WhatsAppLinkFlow (flows/whatsapp_link.py)                               *)
(***************************************************************************)
\* state.phone_number, the caller's own number
PhoneNumber == "237690000001"

WhatsApp_process(s, t) ==
    LET _process_choice ==
            IF Parse[t].choice = "cancel" THEN Finish(s, reset_flow(s))
            ELSE IF Parse[t].choice = "same"
                 THEN Continue(s, next_step(add_data(s, "whatsapp_number", PhoneNumber), "confirm"))
            ELSE IF Parse[t].choice = "different"
                 THEN Continue(s, next_step(s, "ask_whatsapp_number"))
            ELSE LET phone == Parse[t].phone
                 IN  IF phone # ""
                     THEN Continue(s, next_step(add_data(s, "whatsapp_number", phone), "confirm"))
                     ELSE Retry(s)
        _process_whatsapp_number ==
            LET phone == Parse[t].phone
            IN  IF phone # ""
                THEN Continue(s, next_step(add_data(s, "whatsapp_number", phone), "confirm"))
                ELSE Retry(s)
        _process_confirmation ==
            IF Parse[t].answer["whatsapp_link"] = "yes"
            THEN Finish(s, next_step(s, "complete"))
            ELSE IF Parse[t].answer["whatsapp_link"] = "no" THEN Finish(s, reset_flow(s))
            ELSE Retry(s)
    IN  CASE s.flow_step = "ask_whatsapp_choice" -> _process_choice
          [] s.flow_step = "ask_whatsapp_number" -> _process_whatsapp_number
          [] s.flow_step = "confirm" -> _process_confirmation
          [] s.flow_step = "complete" -> Finish(s, s)
          [] OTHER -> Continue(s, s)

\* flow.process(text) of the flow _get_flow selects; without a flow for the
\* type, _process_flow resets the state
FlowProcess(s, t) ==
    CASE s.flow_type = "account_creation" -> Account_process(s, t)
      [] s.flow_type = "withdrawal" -> Withdrawal_process(s, t)
      [] s.flow_type = "topup" -> TopUp_process(s, t)
      [] s.flow_type = "transfer" -> Transfer_process(s, t)
      [] s.flow_type = "dashboard" -> Dashboard_process(s, t)
      [] s.flow_type = "password_reset" -> PasswordReset_process(s, t)
      [] s.flow_type = "password_change" -> PasswordChange_process(s, t)
      [] s.flow_type = "whatsapp_link" -> WhatsApp_process(s, t)
      [] OTHER -> Continue(s, reset_flow(s))

(***************************************************************************)
(* The backend, as the flows see it.  One record o fixes what each service *)
(* call of a turn answers:                                                 *)
(*   o.exists   what check_phone_number reports                            *)
(*   o.profile  get_my_account: "account", "none" (None), "raise"          *)
(*   o.action   the flow's own call: "ok", "mock" (the stand-in result the  *)
(*              service builds on a non-API error), "raise"                *)
(*   o.balance  the balance /api/get-balance reports                       *)
(***************************************************************************)
Balances == {0, 10000}

Outcomes ==
    [exists : BOOLEAN, profile : {"account", "none", "raise"},
     action : {"ok", "mock", "raise"}, balance : Balances]

\* what the backend can answer when an account is (b) or is not registered:
\* check_phone_number reports exists=False on any error, get_my_account
\* returns None when the profile is not found or on a non-API error and
\* re-raises BackendAPIError
Feasible(b, o) ==
    /\ o.exists => b
    /\ o.profile = "account" => b

\* the id of the caller's account (a stand-in account carries a fresh uuid,
\* which the conversation treats the same way)
ACCOUNT_ID == "acc"

\* get_balance: reads the profile first; without a profile, or on any error
\* of /api/get-balance, the balance is 0.0
get_balance_raises(o) == o.profile = "raise"
get_balance(o) == IF o.profile = "account" THEN o.balance ELSE 0

\* the value of flow.complete(): the state it leaves, the service calls it
\* made, and whether an account got registered
Completed(s, calls, registered) == [st |-> s, calls |-> calls, registered |-> registered]

\* AccountCreationFlow.complete
Account_complete(s, o) ==
    IF o.exists \/ o.action = "raise"
    THEN Completed(reset_flow(s),
                   IF o.exists THEN {"check_phone_number"}
                   ELSE {"check_phone_number", "create_account"}, FALSE)
    ELSE Completed(reset_flow([s EXCEPT !.account_id = ACCOUNT_ID,
                                        !.account_balance = 0]),
                   {"check_phone_number", "create_account"}, o.action = "ok")

\* a complete() whose except branch does not reset the flow
Withdrawal_complete_no_reset(s, o) ==
    IF o.action = "raise"
    THEN Completed(s, {"create_withdrawal"}, FALSE)
    ELSE IF get_balance_raises(o)
    THEN Completed(reset_flow(s), {"create_withdrawal", "get_balance"}, FALSE)
    ELSE Completed(reset_flow([s EXCEPT !.account_balance = get_balance(o)]),
                   {"create_withdrawal", "get_balance"}, FALSE)

\* WithdrawalFlow.complete
Withdrawal_complete(s, o) ==
    IF o.action = "raise"
    THEN Completed(reset_flow(s), {"create_withdrawal"}, FALSE)
    ELSE IF get_balance_raises(o)
    THEN Completed(reset_flow(s), {"create_withdrawal", "get_balance"}, FALSE)
    ELSE Completed(reset_flow([s EXCEPT !.account_balance = get_balance(o)]),
                   {"create_withdrawal", "get_balance"}, FALSE)

\* TopUpFlow.complete
TopUp_complete(s, o) ==
    IF o.action = "raise"
    THEN Completed(reset_flow(s), {"create_deposit"}, FALSE)
    ELSE IF get_balance_raises(o)
    THEN Completed(reset_flow(s), {"create_deposit", "get_balance"}, FALSE)
    ELSE Completed(reset_flow([s EXCEPT !.account_balance = get_balance(o)]),
                   {"create_deposit", "get_balance"}, FALSE)

\* TransferFlow.complete
Transfer_complete(s, o) ==
    IF o.action = "raise"
    THEN Completed(reset_flow(s), {"transfer"}, FALSE)
    ELSE IF get_balance_raises(o)
    THEN Completed(reset_flow(s), {"transfer", "get_balance"}, FALSE)
    ELSE Completed(reset_flow([s EXCEPT !.account_balance = get_balance(o)]),
                   {"transfer", "get_balance"}, FALSE)

\* DashboardFlow.complete
Dashboard_complete(s, o) ==
    IF get_data(s, "dashboard_action") = ""
    THEN Completed(reset_flow(s), {}, FALSE)
    ELSE Completed(reset_flow(s), {get_data(s, "dashboard_action")}, FALSE)

\* PasswordResetFlow.complete
PasswordReset_complete(s, o) == Completed(reset_flow(s), {"reset_password"}, FALSE)

\* PasswordChangeFlow.complete
PasswordChange_complete(s, o) == Completed(reset_flow(s), {"change_password"}, FALSE)

\* WhatsAppLinkFlow.complete
WhatsApp_complete(s, o) == Completed(reset_flow(s), {"link_whatsapp"}, FALSE)

\* flow.complete() of the flow object ft that _process_flow built before it
\* called process()
FlowComplete(ft, s, o) ==
    CASE ft = "account_creation" -> Account_complete(s, o)
      [] ft = "withdrawal" -> Withdrawal_complete(s, o)
      [] ft = "topup" -> TopUp_complete(s, o)
      [] ft = "transfer" -> Transfer_complete(s, o)
      [] ft = "dashboard" -> Dashboard_complete(s, o)
      [] ft = "password_reset" -> PasswordReset_complete(s, o)
      [] ft = "password_change" -> PasswordChange_complete(s, o)
      [] ft = "whatsapp_link" -> WhatsApp_complete(s, o)

(***************************************************************************)
(* flow.start() and the intent handlers of ConversationManager: the state  *)
(* they leave, the service calls they made, and whether an exception       *)
(* left the handler.                                                       *)
(***************************************************************************)
Handled(s, calls, raised) == [st |-> s, calls |-> calls, raised |-> raised]

\* the common opening of start(): look the account up unless account_id is
\* known; withBalance tells whether the flow also copies account.balance
\* (get_my_account always reports 0.0)
StartWithAccount(s, o, ft, step, withBalance) ==
    IF s.account_id # NoAccount
    THEN Handled(start_flow(s, ft, step), {}, FALSE)
    ELSE IF o.profile = "raise" THEN Handled(s, {"get_my_account"}, TRUE)
    ELSE IF o.profile = "none" THEN Handled(s, {"get_my_account"}, FALSE)
    ELSE LET s1 == [s EXCEPT !.account_id = ACCOUNT_ID,
                             !.account_balance = IF withBalance THEN 0 ELSE @]
         IN  Handled(start_flow(s1, ft, step), {"get_my_account"}, FALSE)

Account_start(s) == Handled(start_flow(s, "account_creation", "ask_name"), {}, FALSE)
Withdrawal_start(s, o) == StartWithAccount(s, o, "withdrawal", "ask_amount", TRUE)
TopUp_start(s, o) == StartWithAccount(s, o, "topup", "ask_amount", TRUE)
Transfer_start(s, o) == StartWithAccount(s, o, "transfer", "ask_receiver", TRUE)
Dashboard_start(s, o) == StartWithAccount(s, o, "dashboard", "ask_dashboard_action", TRUE)
PasswordReset_start(s, o) == StartWithAccount(s, o, "password_reset", "confirm", FALSE)
PasswordChange_start(s, o) == StartWithAccount(s, o, "password_change", "ask_old_password", FALSE)
WhatsApp_start(s, o) == StartWithAccount(s, o, "whatsapp_link", "ask_whatsapp_choice", FALSE)

\* _handle_intent, branch 1: Intent.ACCOUNT_CREATION
handle_account_creation(s, o) ==
    IF s.phone_checked
    THEN IF s.account_exists THEN Handled(s, {}, FALSE) ELSE Account_start(s)
    ELSE IF ~o.exists
         THEN LET h == Account_start(mark_phone_checked(s, FALSE))
              IN  Handled(h.st, {"check_phone_number"}, FALSE)
    ELSE IF o.profile = "raise"
         THEN LET h == Account_start(mark_phone_checked(s, FALSE))
              IN  Handled(h.st, {"check_phone_number", "get_my_account"}, FALSE)
    ELSE LET s1 == mark_phone_checked(s, TRUE)
             s2 == IF o.profile = "account"
                   THEN [s1 EXCEPT !.account_id = ACCOUNT_ID, !.account_balance = 0]
                   ELSE s1
         IN  Handled(s2, {"check_phone_number", "get_my_account"}, FALSE)

_handle_view_account(s, o) ==
    IF o.profile = "account"
    THEN Handled([s EXCEPT !.account_id = ACCOUNT_ID, !.account_balance = 0],
                 {"get_my_account"}, FALSE)
    ELSE Handled(s, {"get_my_account"}, FALSE)

_handle_balance_inquiry(s, o) ==
    LET s1 == mark_phone_checked(s, o.exists)
    IN  IF ~s1.account_exists THEN Handled(s1, {"check_phone_number"}, FALSE)
        ELSE IF get_balance_raises(o)
             THEN Handled(s1, {"check_phone_number", "get_balance"}, FALSE)
        ELSE Handled([s1 EXCEPT !.account_balance = get_balance(o)],
                     {"check_phone_number", "get_balance"}, FALSE)

_handle_transaction_history(s, o) ==
    LET s1 == mark_phone_checked(s, o.exists)
    IN  IF ~s1.account_exists THEN Handled(s1, {"check_phone_number"}, FALSE)
        ELSE Handled(s1, {"check_phone_number", "get_dashboard_transactions"}, FALSE)

_handle_intent(s, intent, o) ==
    CASE intent = "account_creation" -> handle_account_creation(s, o)
      [] intent = "view_account" -> _handle_view_account(s, o)
      [] intent = "balance_inquiry" -> _handle_balance_inquiry(s, o)
      [] intent = "transaction_history" -> _handle_transaction_history(s, o)
      [] intent = "withdrawal" ->
            IF ~s.account_exists THEN Handled(s, {}, FALSE) ELSE Withdrawal_start(s, o)
      [] intent = "topup" ->
            IF ~s.account_exists THEN Handled(s, {}, FALSE) ELSE TopUp_start(s, o)
      [] intent = "transfer" -> Transfer_start(s, o)
      [] intent = "dashboard" -> Dashboard_start(s, o)
      [] intent = "password_reset" -> PasswordReset_start(s, o)
      [] intent = "password_change" -> PasswordChange_start(s, o)
      [] intent = "whatsapp_link" -> WhatsApp_start(s, o)
      [] OTHER -> Handled(s, {}, FALSE)

(***************************************************************************)
(* The conversation: one caller, one conversation id.                      *)
(*   state    the ConversationState object the last turn worked on         *)
(*   store    the conversation store: empty, or the dictionary last saved  *)
(*   account  whether the backend holds an account for the caller          *)
(*   checked  whether check_phone_number has been called before this turn  *)
(*   turn     what the last process_message call did                       *)
(*   pinned   the language detected on the first turn of the conversation   *)
(* The conversation store with its clock, the OTP service and the fraud    *)
(* detector have their own variables, described where they are modelled.   *)
(***************************************************************************)
VARIABLES state, store, account, checked, turn, pinned,
          now, io, otp_key, verify, otp_log, fraud,
          vel, orch, req, cls, nlu, conc

vars == <<state, store, account, checked, turn, pinned,
          now, io, otp_key, verify, otp_log, fraud,
          vel, orch, req, cls, nlu, conc>>

\* the entity extractor's calls and the conversation served by two workers
rest == <<nlu, conc>>

\* the velocity record under concurrent calls, the banking orchestrator, a
\* request of the backend client and a call of the classifier
apart == <<vel, orch, req, cls, rest>>

\* the variables of the parts of the system a process_message call does not
\* touch
elsewhere == <<now, io, otp_key, verify, otp_log, fraud, apart>>

\* store.get: the stored state, or None
StoreGet == IF store = << >> THEN NewState ELSE from_dict(store[1])

\* get_or_create_state followed by the language detection of process_message
Loaded(text) ==
    LET s == StoreGet
    IN  IF s.lang = NoLang THEN [s EXCEPT !.lang = Parse[text].lang] ELSE s

\* the part of a turn that later turns cannot read back from the state:
\* where the turn began, how the Confirm step read the text, which intent
\* was classified, which service calls were made, whether flow.complete()
\* ran, the highest value of attempts, whether an exception left the call
Turn(kind, s, text, intent, calls, completed, peak, raised) ==
    [kind |-> kind, pre_flow |-> s.flow_type, pre_step |-> s.flow_step,
     pre_attempts |-> s.attempts, pre_exists |-> s.account_exists,
     answer |-> IF s.flow_step = "confirm" THEN Parse[text].answer[s.flow_type] ELSE "",
     intent |-> intent, calls |-> calls, completed |-> completed,
     peak |-> peak, raised |-> raised]

\* generate_otp called with no keyword beyond the action
NoMetadata == [k \in {} |-> ""]

\* a call record that stands for "no verify_otp call returned in this step"
NoCall ==
    [code |-> "", found |-> FALSE, attempts |-> 0, otp_hash |-> "no_hash", gen |-> 0,
     action |-> "", metadata |-> NoMetadata,
     epoch |-> 0, after_fails |-> FALSE, after_success |-> FALSE,
     result |-> "none", compared |-> FALSE]

\* the history of the OTP key before any call
NoOtpLog ==
    [gen |-> 0, code |-> "", fails |-> 0, succeeded |-> FALSE, calls |-> 0,
     compared |-> 0, valids |-> 0, returned |-> NoCall,
     action |-> "", metadata |-> NoMetadata]

\* the fraud detector's Redis keys of a user who has made no transfer, at
\* midday, before any assessment
NoFraud ==
    [count |-> 0, known |-> {}, asked |-> {}, hour |-> 12, flip |-> FALSE,
     last |-> [amount |-> 0, count |-> 0, is_new |-> FALSE, hour |-> 12, score |-> 0,
               velocity |-> 0, assessed |-> FALSE]]

\* the velocity sorted set of a user who has made no transfer
NoVelocity ==
    [clock |-> 0, zset |-> {}, flying |-> EmptyBag, started |-> 0, done |-> 0, ticks |-> 0]

\* a call of _request that has made no attempt yet
NewCall(client, retries) ==
    [client |-> client, max_retries |-> retries, attempt |-> 0, history |-> << >>,
     done |-> FALSE, raised |-> "none", status_code |-> 0]

\* no call was made
NoRequest == [NewCall("none", 0) EXCEPT !.done = TRUE]

\* an utterance without entities
NoEntities == [k \in {} |-> ""]

\* BankingOrchestrator before any command: no call made, d already transferred
\* today, the user has no beneficiary list of their own (mock_api falls back
\* to the default list), no audit entry written
NoOrch(d) ==
    [calls |-> 0, day_total |-> d, bens |-> << >>, pending |-> FALSE,
     last |-> [kind |-> "none", intent |-> "none", montant |-> 0, dest |-> "",
               writable |-> TRUE, status |-> "none", reject |-> "none",
               assessed |-> FALSE, risk |-> 0, is_new |-> FALSE,
               requires_otp |-> FALSE, otp |-> FALSE, executed |-> FALSE,
               has_txn |-> FALSE, raised |-> FALSE, trail |-> << >>]]

\* the workers that serve the messages of the conversation
Workers == {1, 2}

\* a worker that has no message to serve
NoMessage ==
    [pc |-> "idle", text |-> "", st |-> NewState, pre_flow |-> "none", pre_step |-> NoStep]

\* the conversation under two workers before any message: nothing stored,
\* no money moved
NoConc == [store |-> << >>, moved |-> 0, worker |-> [w \in Workers |-> NoMessage]]

Start ==
    /\ state = NewState
    /\ store = << >>
    /\ account \in BOOLEAN
    /\ checked = FALSE
    /\ turn = Turn("init", NewState, "", "", {}, FALSE, 0, FALSE)
    /\ pinned = NoLang
    /\ now = 0
    /\ io = [op |-> "none", saved |-> NewState, expires |-> 0, hit |-> FALSE,
             found |-> FALSE, ticks |-> 0]
    /\ otp_key = << >>
    /\ verify = EmptyBag
    /\ otp_log = NoOtpLog
    /\ vel = NoVelocity
    /\ req = NoRequest
    /\ cls = [text |-> "", intent |-> "none", confidence |-> 0]
    /\ nlu = [op |-> "none", intent |-> "none", text |-> "", canonical |-> "",
              entities |-> NoEntities, ok |-> TRUE, missing |-> << >>]

Init == Start /\ fraud = NoFraud /\ orch = NoOrch(0) /\ conc = NoConc

\* a turn that calls no service needs no answer from the backend
NoOutcome == [exists |-> FALSE, profile |-> "none", action |-> "ok", balance |-> 0]

\* process_message when the loaded state is in a flow: _process_flow (the
\* flow's process, then its complete when process reports completion), save
ProcessFlow(text) ==
    \E s \in {Loaded(text)} :
    \E r \in {FlowProcess(s, text)} :
    \E o \in IF r.done THEN Outcomes ELSE {NoOutcome} :
    \E c \in {IF r.done THEN FlowComplete(s.flow_type, r.st, o)
              ELSE Completed(r.st, {}, FALSE)} :
        /\ is_in_flow(s)
        /\ Feasible(account, o)
        /\ state' = c.st
        /\ store' = <<to_dict(c.st)>>
        /\ account' = (account \/ c.registered)
        /\ checked' = (checked \/ "check_phone_number" \in turn.calls)
        /\ turn' = Turn("flow", s, text, "", c.calls, r.done, r.peak, FALSE)
        /\ pinned' = IF turn.kind = "init" THEN s.lang ELSE pinned
        /\ UNCHANGED elsewhere

\* process_message when the loaded state is not in a flow: classify,
\* _handle_intent, save; an exception leaving _handle_intent skips the save.
\* Only the intents of a flow or an account handler reach the backend.
HandleIntent(text) ==
    \E s \in {Loaded(text)} :
    \E intent \in {Parse[text].intent} :
    \E o \in IF intent \in (FlowType \ {"none"}) \cup {"view_account", "balance_inquiry",
                                                      "transaction_history"}
             THEN {x \in Outcomes : x.action = "ok"}
             ELSE {NoOutcome} :
    \E h \in {_handle_intent(s, intent, o)} :
        /\ ~is_in_flow(s)
        /\ Feasible(account, o)
        /\ state' = h.st
        /\ store' = IF h.raised THEN store ELSE <<to_dict(h.st)>>
        /\ account' = account
        /\ checked' = (checked \/ "check_phone_number" \in turn.calls)
        /\ turn' = Turn("intent", s, text, intent, h.calls, FALSE, s.attempts, h.raised)
        /\ pinned' = IF turn.kind = "init" THEN s.lang ELSE pinned
        /\ UNCHANGED elsewhere

Next ==
    \/ \E text \in Texts : ProcessFlow(text)
    \/ \E text \in Texts : HandleIntent(text)

Spec == Init /\ [][Next]_vars

TypeOK ==
    /\ state.flow_type \in FlowType
    /\ state.flow_step \in FlowStep \cup {NoStep}
    /\ state.attempts \in 0..max_attempts
    /\ account \in BOOLEAN

(***************************************************************************)
(* Properties                                                              *)
(***************************************************************************)

\* C1: flow.complete() is never invoked on a turn in which process() aborted
\* the flow because attempts reached max_attempts.
C1_NoCompleteAfterAbort ==
    (turn.kind = "flow" /\ turn.peak >= max_attempts) => ~turn.completed

\* C2: on the turn where the user answers no at a Confirm step, no backend
\* action is executed.
C2_NoDoesNotAct ==
    (turn.kind = "flow" /\ turn.pre_step = "confirm" /\ turn.answer = "no")
        => (~turn.completed /\ turn.calls = {})

\* C3: attempts never exceeds max_attempts, neither between turns nor inside
\* a process() call, and an increment that brings attempts to max_attempts
\* resets the flow within the same call.
C3_AttemptsBounded ==
    /\ state.attempts <= max_attempts
    /\ turn.peak <= max_attempts
    /\ turn.peak >= max_attempts => state.flow_type = "none"
    /\ store # << >> => store[1].attempts < max_attempts

C3_Witness ==
    /\ turn.kind = "flow"
    /\ turn.peak = max_attempts
    /\ turn.pre_attempts = max_attempts - 1
    /\ state.flow_type = "none"

\* C4: a state without a flow has no step, no collected data and no attempts,
\* in memory and in the store; a flow that has just been started has a step,
\* no collected data and no attempts.
C4_FlowFieldsTogether ==
    LET Idle(d) == d.flow_type = "none" =>
                     /\ d.flow_step = NoStep
                     /\ DOMAIN d.collected_data = {}
                     /\ d.attempts = 0
        Fresh(d) == /\ d.flow_step # NoStep
                    /\ DOMAIN d.collected_data = {}
                    /\ d.attempts = 0
    IN  /\ Idle(state)
        /\ store # << >> => Idle(store[1])
        /\ (turn.kind = "intent" /\ state.flow_type # "none") => Fresh(state)
        /\ (turn.kind = "intent" /\ state.flow_type # "none" /\ ~turn.raised)
              => Fresh(store[1])

C4_Witness ==
    /\ turn.kind = "flow"
    /\ turn.pre_flow = "transfer"
    /\ turn.pre_step = "confirm"
    /\ state.flow_type = "none"
    /\ store[1].flow_type = "none"

\* C5: after flow.complete() has returned the conversation is in no flow,
\* whether the backend call succeeded, failed or raised.
C5_CompleteLeavesNoFlow ==
    turn.completed => (state.flow_type = "none" /\ store[1].flow_type = "none")

C5_Witness ==
    /\ turn.completed
    /\ turn.pre_flow = "withdrawal"
    /\ turn.pre_step = "confirm"
    /\ turn.answer = "yes"
    /\ turn.calls = {"create_withdrawal"}
    /\ state.flow_type = "none"

\* C6: a process() call at an ask step either moves the flow to another step
\* or increments attempts by one.
C6_AskAdvancesOrCounts ==
    (turn.kind = "flow" /\ turn.pre_step \in AskSteps)
        => (state.flow_step # turn.pre_step \/ turn.peak = turn.pre_attempts + 1)

\* C7: an answer at a Confirm step that is neither yes nor no increments
\* attempts.
C7_UnclearConfirmCounts ==
    (turn.kind = "flow" /\ turn.pre_step = "confirm" /\ turn.answer = "unclear")
        => turn.peak = turn.pre_attempts + 1

\* C8: a Withdrawal, TopUp or Transfer intent does not start a flow unless
\* account_exists was already true when the turn began.
C8_RevenueFlowsNeedAccount ==
    (turn.kind = "intent" /\ turn.intent \in {"withdrawal", "topup", "transfer"}
        /\ ~turn.pre_exists) => state.flow_type = "none"

\* C9: check_phone_number is called at most once in a conversation: no turn
\* calls it after an earlier turn has.
C9_PhoneCheckedOnce == ~(checked /\ "check_phone_number" \in turn.calls)

\* C10: when process_message is left, by return or by exception, the store
\* holds the state the call worked on.
C10_EveryExitSaves == turn.kind # "init" => store = <<to_dict(state)>>

\* C11: the language is detected on the first turn only: on every later
\* turn, with the state saved and loaded in between, the language in use is
\* the one detected on the first turn, whatever the later texts are.
C11_LanguageSticky == turn.kind # "init" => state.lang = pinned

(***************************************************************************)
(* InMemoryConversationStore (app/storage/conversation_store.py), the      *)
(* store get_conversation_store returns when no Redis URL is configured,   *)
(* with its clock.  Time is counted in seconds.                            *)
(*   now    datetime.utcnow()                                              *)
(*   io     the last store operation: which one, the state given to the    *)
(*          last save and the time its entry expires, whether get found    *)
(*          an entry under the key and whether it returned a state, and    *)
(*          how often the clock has advanced                               *)
(* store holds the dictionary kept under the conversation id, here with    *)
(* its _expires_at; state is the object the caller holds.                  *)
(***************************************************************************)
CONVERSATION_TTL == 3600

\* how often the clock advances in a behaviour
MaxTicks == 3

\* save: to_dict plus the expiry time, kept under the conversation id
store_save(s, t) ==
    LET data == to_dict(s)
    IN  <<[k \in DOMAIN data \cup {"_expires_at"} |->
              IF k = "_expires_at" THEN t + CONVERSATION_TTL ELSE data[k]]>>

\* a get that never looks at the expiry time
store_get_no_ttl(st, t) ==
    IF st = << >> THEN [found |-> FALSE, state |-> NewState, store |-> st]
    ELSE [found |-> TRUE, state |-> from_dict(st[1]), store |-> st]

\* get: None for a missing key; an entry past its expiry time is deleted and
\* None returned; otherwise (an entry without a readable expiry time
\* included) the state rebuilt by from_dict
store_get(st, t) ==
    IF st = << >> THEN [found |-> FALSE, state |-> NewState, store |-> st]
    ELSE IF "_expires_at" \in DOMAIN st[1] /\ t > st[1]["_expires_at"]
         THEN [found |-> FALSE, state |-> NewState, store |-> << >>]
    ELSE [found |-> TRUE, state |-> from_dict(st[1]), store |-> st]

\* get_or_create_state: the stored state, or a new one when get returns None
get_or_create_state(st, t) ==
    LET g == store_get(st, t)
    IN  [g EXCEPT !.state = IF g.found THEN g.state ELSE NewState]

\* states process_message hands to save: the language is set, a flow may be
\* under way
SavedStates ==
    LET fr == [NewState EXCEPT !.lang = "fr"]
        en == [NewState EXCEPT !.lang = "en"]
        known == [mark_phone_checked(fr, TRUE) EXCEPT !.account_id = ACCOUNT_ID,
                                                    !.account_balance = 10000]
        asking == start_flow(known, "withdrawal", "ask_amount")
    IN  {fr, en, known, asking,
         next_step(add_data(asking, "amount", 5000), "confirm"),
         increment_attempts(start_flow(en, "account_creation", "ask_name"))}

\* store.save(state)
Save ==
    \E s \in SavedStates :
        /\ state' = s
        /\ store' = store_save(s, now)
        /\ io' = [io EXCEPT !.op = "save", !.saved = s,
                            !.expires = now + CONVERSATION_TTL]
        /\ UNCHANGED <<now, account, checked, turn, pinned, otp_key, verify, otp_log, fraud, apart>>

\* get_or_create_state(conversation_id, ...)
Get ==
    \E g \in {get_or_create_state(store, now)} :
        /\ state' = g.state
        /\ store' = g.store
        /\ io' = [io EXCEPT !.op = "get", !.hit = (store # << >>), !.found = g.found]
        /\ UNCHANGED <<now, account, checked, turn, pinned, otp_key, verify, otp_log, fraud, apart>>

\* time passes: a second, or a whole TTL
Tick ==
    \E d \in {1, CONVERSATION_TTL} :
        /\ io.ticks < MaxTicks
        /\ now' = now + d
        /\ io' = [io EXCEPT !.op = "tick", !.ticks = @ + 1]
        /\ UNCHANGED <<state, store, account, checked, turn, pinned, otp_key, verify,
                       otp_log, fraud, apart>>

StoreNext == Save \/ Get \/ Tick

\* the services below do not read whether the phone has an account
ServiceInit == Init /\ ~account

StoreSpec == ServiceInit /\ [][StoreNext]_vars

\* C12: a state saved and loaded again before its entry expires is equal in
\* all fields to the state that was saved.
C12_SaveGetRoundTrip ==
    (io.op = "get" /\ io.hit /\ now <= io.expires) => state = io.saved

\* C13: a get of an entry whose TTL has elapsed behaves as a get of a key
\* that was never saved: nothing is found, the caller starts from a new state
\* and the store holds no entry; every save gives the entry the full TTL from
\* the time of that save, so until then a get finds the entry.
C13_ExpiredIsNotFound ==
    /\ (io.op = "get" /\ io.hit /\ now > io.expires)
          => (~io.found /\ state = NewState /\ store = << >>)
    /\ (io.op = "get" /\ ~io.hit) => (~io.found /\ state = NewState /\ store = << >>)
    /\ io.op = "save" => store[1]["_expires_at"] = now + CONVERSATION_TTL
    /\ (io.op = "get" /\ io.hit /\ now <= io.expires) => io.found

C13_Witness ==
    /\ io.op = "get"
    /\ io.hit
    /\ now > io.expires
    /\ io.saved.flow_type = "withdrawal"
    /\ state = NewState

(***************************************************************************)
(* OTPService (src/services/banking/security.py) for one                   *)
(* (user_id, conversation_id), that is one Redis key.                      *)
(*   otp_key  the Redis hash under the key: no element when the key does   *)
(*            not exist, else one record with the fields verify_otp reads  *)
(*            (otp_hash, attempts), whether the key carries a time to      *)
(*            live, and which generate_otp call wrote the hash             *)
(*   verify   the verify_otp calls that have received the reply of hgetall *)
(*            and not returned yet, as a bag: the submitted code, the      *)
(*            values read, how many OTPs had been generated and what had   *)
(*            already happened to the current OTP when the call read       *)
(*   otp_log  history of the current OTP: the number of generate_otp calls *)
(*            so far, the code, how many verifies of it returned "Code     *)
(*            incorrect", whether one returned valid, how many submitted   *)
(*            codes were compared with its hash and how many verifies of   *)
(*            it returned valid; the number of verify_otp calls so far and *)
(*            the call that returned in the last step                      *)
(* A step is one Redis command together with the code that runs after its  *)
(* reply up to the next await; calls of verify_otp interleave at their     *)
(* awaits.  generate_otp (hset, then expire) is taken as one step.         *)
(***************************************************************************)
OTP_LENGTH == 6
MAX_ATTEMPTS == 3

\* how many verify_otp calls and generate_otp calls a behaviour has
MaxCalls == 4
MaxGenerate == 2

\* codes _generate_otp_code may draw, and users may submit
Codes == {c \in {"123456", "654321"} : Len(c) = OTP_LENGTH}

\* sha256 hex digest, modelled as an injective tagging of the code
_hash_otp(otp) == "sha256:" \o otp

NoHash == "no_hash"

\* the keywords of a generate_otp call as hset stores them: str(v)
otp_metadata(fields, amount, beneficiary) ==
    [k \in fields |-> IF k = "amount" THEN ToString(amount) ELSE beneficiary]

\* generate_otp call number g: hset writes the hash, the action, attempts
\* "0" and the keywords of the call into the hash under the key, and leaves
\* every other field the key holds; expire sets the validity window
generate_otp(key, code, g, action, metadata) ==
    LET held == IF key = << >> THEN NoMetadata ELSE key[1].metadata
    IN  <<[otp_hash |-> _hash_otp(code), attempts |-> 0, ttl |-> TRUE, gen |-> g,
           action |-> action,
           metadata |-> [k \in DOMAIN held \cup DOMAIN metadata |->
                            IF k \in DOMAIN metadata THEN metadata[k] ELSE held[k]]]>>

\* redis.hincrby(key, "attempts", 1): a missing key is created holding only
\* the counter, without time to live
hincrby(key) ==
    IF key = << >>
    THEN <<[otp_hash |-> NoHash, attempts |-> 1, ttl |-> FALSE, gen |-> 0,
            action |-> "", metadata |-> NoMetadata]>>
    ELSE <<[key[1] EXCEPT !.attempts = @ + 1]>>

\* a verify_otp call that has received the reply of hgetall; without a
\* record it has returned invalid
VerifyCall(code, key) ==
    [code |-> code,
     found |-> key # << >>,
     attempts |-> IF key = << >> THEN 0 ELSE key[1].attempts,
     otp_hash |-> IF key = << >> THEN NoHash ELSE key[1].otp_hash,
     gen |-> IF key = << >> THEN 0 ELSE key[1].gen,
     action |-> IF key = << >> THEN "" ELSE key[1].action,
     metadata |-> IF key = << >> THEN NoMetadata ELSE key[1].metadata,
     epoch |-> otp_log.gen,
     after_fails |-> otp_log.fails >= MAX_ATTEMPTS,
     after_success |-> otp_log.succeeded,
     result |-> IF key = << >> THEN "invalid" ELSE "pending",
     compared |-> FALSE]

\* verify_otp after hgetall: the branch taken on the values read, the Redis
\* command it sends and the result it returns
verify_otp_no_limit(c, key) ==
    IF _hash_otp(c.code) # c.otp_hash
    THEN [key |-> hincrby(key), valid |-> FALSE, compared |-> TRUE]
    ELSE [key |-> << >>, valid |-> TRUE, compared |-> TRUE]

verify_otp_keeps_record(c, key) ==
    IF c.attempts >= MAX_ATTEMPTS
    THEN [key |-> << >>, valid |-> FALSE, compared |-> FALSE]
    ELSE IF _hash_otp(c.code) # c.otp_hash
         THEN [key |-> hincrby(key), valid |-> FALSE, compared |-> TRUE]
    ELSE [key |-> key, valid |-> TRUE, compared |-> TRUE]

verify_otp(c, key) ==
    IF c.attempts >= MAX_ATTEMPTS
    THEN [key |-> << >>, valid |-> FALSE, compared |-> FALSE]
    ELSE IF _hash_otp(c.code) # c.otp_hash
         THEN [key |-> hincrby(key), valid |-> FALSE, compared |-> TRUE]
    ELSE [key |-> << >>, valid |-> TRUE, compared |-> TRUE]

OtpUnchanged == <<state, store, account, checked, turn, pinned, now, io, fraud, apart>>

\* the generate_otp calls of the orchestrator's handlers: a transfer with
\* its amount and beneficiary, a card block without keywords
OtpRequests ==
    {[action |-> "virement", metadata |-> otp_metadata({"amount", "beneficiary"}, 600, "Paul")],
     [action |-> "bloquer_carte", metadata |-> NoMetadata]}

\* generate_otp: a new code, its hash stored with the action, attempts "0",
\* the keywords of the call and a time to live
GenerateOtp ==
    \E code \in Codes : \E request \in OtpRequests :
        /\ otp_log.gen < MaxGenerate
        /\ otp_key' = generate_otp(otp_key, code, otp_log.gen + 1,
                                   request.action, request.metadata)
        /\ otp_log' = [NoOtpLog EXCEPT !.gen = otp_log.gen + 1, !.code = code,
                                       !.calls = otp_log.calls,
                                       !.action = request.action,
                                       !.metadata = request.metadata]
        /\ UNCHANGED <<verify, OtpUnchanged>>

\* verify_otp up to the reply of hgetall; without a record it returns here
VerifyRead ==
    \E code \in Codes : \E c \in {VerifyCall(code, otp_key)} :
        /\ otp_log.calls < MaxCalls
        /\ verify' = IF c.found THEN verify (+) SetToBag({c}) ELSE verify
        /\ otp_log' = [otp_log EXCEPT !.calls = @ + 1,
                                      !.returned = IF c.found THEN NoCall ELSE c]
        /\ UNCHANGED <<otp_key, OtpUnchanged>>

\* verify_otp from the reply of hgetall to its return
VerifyAct ==
    \E c \in BagToSet(verify) : \E r \in {verify_otp(c, otp_key)} :
    \E mine \in {c.gen = otp_log.gen /\ r.compared} :
        /\ otp_key' = r.key
        /\ verify' = verify (-) SetToBag({c})
        /\ otp_log' = [otp_log EXCEPT
                          !.fails = IF mine /\ ~r.valid THEN @ + 1 ELSE @,
                          !.succeeded = @ \/ (mine /\ r.valid),
                          !.compared = IF mine THEN @ + 1 ELSE @,
                          !.valids = IF mine /\ r.valid THEN @ + 1 ELSE @,
                          !.returned = [c EXCEPT !.result = IF r.valid THEN "valid" ELSE "invalid",
                                                 !.compared = r.compared]]
        /\ UNCHANGED OtpUnchanged

\* the validity window of the key ends
ExpireOtp ==
    /\ otp_key # << >>
    /\ otp_key[1].ttl
    /\ otp_key' = << >>
    /\ otp_log' = [otp_log EXCEPT !.returned = NoCall]
    /\ UNCHANGED <<verify, OtpUnchanged>>

\* cancel_otp
cancel_otp ==
    /\ otp_key # << >>
    /\ otp_key' = << >>
    /\ otp_log' = [otp_log EXCEPT !.returned = NoCall]
    /\ UNCHANGED <<verify, OtpUnchanged>>

OtpNext == GenerateOtp \/ VerifyRead \/ VerifyAct \/ ExpireOtp \/ cancel_otp

OtpSpec == ServiceInit /\ [][OtpNext]_vars

\* a record a submitted code can match
Matchable == otp_key # << >> /\ otp_key[1].otp_hash # NoHash

\* the call that returned in the last step read the key after the event and
\* no generate_otp has run since
ReturnedLater(c) == c.result \in {"valid", "invalid"} /\ c.epoch = otp_log.gen

\* C14: a verify_otp that reads the key after MAX_ATTEMPTS verifies of the
\* current OTP returned "Code incorrect", with no generate_otp since, returns
\* invalid whatever code it carries, and when it returns no record that a
\* code could match is left.
C14_ExhaustedStaysInvalid ==
    (ReturnedLater(otp_log.returned) /\ otp_log.returned.after_fails)
        => (otp_log.returned.result = "invalid" /\ ~Matchable)

C14_Witness ==
    /\ ReturnedLater(otp_log.returned)
    /\ otp_log.returned.after_fails
    /\ otp_log.returned.found
    /\ otp_log.returned.gen = otp_log.gen
    /\ otp_log.returned.code = otp_log.code
    /\ otp_log.returned.result = "invalid"

\* C15: right after the third consecutive incorrect verify_otp of an OTP
\* returns, no record exists under the key.
C15_ThirdFailureDeletes ==
    (/\ ReturnedLater(otp_log.returned)
     /\ otp_log.returned.compared
     /\ otp_log.returned.result = "invalid"
     /\ otp_log.returned.gen = otp_log.gen
     /\ otp_log.fails = MAX_ATTEMPTS) => otp_key = << >>

\* C16: a verify_otp that reads the key after a verify of the current OTP
\* returned valid, with no generate_otp since, returns invalid, also when it
\* carries the code that was accepted.
C16_NoReplay ==
    (ReturnedLater(otp_log.returned) /\ otp_log.returned.after_success)
        => otp_log.returned.result = "invalid"

C16_Witness ==
    /\ ReturnedLater(otp_log.returned)
    /\ otp_log.returned.after_success
    /\ otp_log.returned.code = otp_log.code
    /\ otp_log.returned.result = "invalid"

\* C17: at most one verify_otp call returns valid for one generated OTP,
\* however the calls interleave.
C17_AtMostOneValid == otp_log.valids <= 1

\* C18: for one generated OTP at most MAX_ATTEMPTS submitted codes are
\* compared with the stored hash, however the calls interleave.
C18_ComparisonsBounded == otp_log.compared <= MAX_ATTEMPTS

\* C38: the action and the metadata a successful verify_otp returns are those
\* passed to the most recent generate_otp for the key: no field of an earlier
\* record survives a new generate_otp.
C38_VerifiedMetadataIsLatest ==
    (otp_log.returned.result = "valid" /\ otp_log.returned.gen = otp_log.gen)
        => /\ otp_log.returned.action = otp_log.action
           /\ otp_log.returned.metadata = otp_log.metadata

(***************************************************************************)
(* FraudDetector (src/services/banking/fraud_detector.py) for one user.    *)
(*   fraud.count  transaction attempts recorded in the velocity window     *)
(*   fraud.known  the hashes in the user's set of beneficiaries            *)
(*   fraud.asked  the names assess_risk was called with since that set     *)
(*                was created                                              *)
(*   fraud.hour   datetime.utcnow().hour                                   *)
(*   fraud.last   the last assess_risk call: its amount, what the factors  *)
(*                read, the velocity points and the score returned         *)
(*   fraud.flip   changes with every assess_risk call                      *)
(* Amounts are whole numbers of the currency unit.  Calls run one after    *)
(* the other here, so every call records its attempt under a timestamp of  *)
(* its own; calls that overlap are the subject of the velocity record      *)
(* further down.                                                           *)
(***************************************************************************)
HIGH_AMOUNT_THRESHOLD == 1000
VELOCITY_LIMIT == 3
VELOCITY_MEDIUM_LIMIT == 2
RISK_LOW == 0
RISK_CAP == 100
VELOCITY_HIGH_RISK_POINTS == 40
VELOCITY_MEDIUM_RISK_POINTS == 20
UNUSUAL_TIME_HIGH_RISK_POINTS == 15
UNUSUAL_TIME_MEDIUM_RISK_POINTS == 10
ROUND_AMOUNT_MIN == 500
ROUND_AMOUNT_UNIT == 100
ROUND_AMOUNT_POINTS == 10
NEW_BENEFICIARY_POINTS == 20
HIGH_AMOUNT_POINTS == 30

\* how many attempts the velocity window holds at most
MaxVelocity == 4

Amounts == {499, 500, 550, 1000, 1001, 2000}
Hours == {0, 4, 5, 12, 21, 22, 23}
Beneficiaries == {"Alice", "alice", "bob"}

\* a hash of the name as it was written
beneficiary_hash_as_written(b) == "md5:" \o b

\* md5 of the lower-cased beneficiary, modelled as an injective tagging
beneficiary_hash(b) ==
    LET LowerOf(c) == CASE c = "A" -> "a" [] c = "B" -> "b" [] c = "M" -> "m" [] c = "P" -> "p"
                            [] c = "Z" -> "z" [] OTHER -> c
        RECURSIVE lower(_)
        lower(w) == IF w = "" THEN "" ELSE LowerOf(Char(w, 1)) \o lower(SubSeq(w, 2, Len(w)))
    IN  "md5:" \o lower(b)

\* a velocity check that counts the attempt of the call itself
_check_velocity_counts_itself(count) ==
    IF count + 1 >= VELOCITY_LIMIT THEN VELOCITY_HIGH_RISK_POINTS
    ELSE IF count + 1 >= VELOCITY_MEDIUM_LIMIT THEN VELOCITY_MEDIUM_RISK_POINTS
    ELSE 0

_check_velocity(count) ==
    IF count >= VELOCITY_LIMIT THEN VELOCITY_HIGH_RISK_POINTS
    ELSE IF count >= VELOCITY_MEDIUM_LIMIT THEN VELOCITY_MEDIUM_RISK_POINTS
    ELSE 0

_is_new_beneficiary(known, b) == beneficiary_hash(b) \notin known

_check_unusual_time(current_hour) ==
    IF 0 <= current_hour /\ current_hour < 5 THEN UNUSUAL_TIME_HIGH_RISK_POINTS
    ELSE IF 22 <= current_hour /\ current_hour < 24 THEN UNUSUAL_TIME_MEDIUM_RISK_POINTS
    ELSE 0

\* the score without the final cap
assess_risk_uncapped(amount, count, is_new, hour) ==
    LET s1 == RISK_LOW + (IF amount > HIGH_AMOUNT_THRESHOLD THEN HIGH_AMOUNT_POINTS ELSE 0)
        s2 == s1 + _check_velocity(count)
        s3 == s2 + (IF is_new THEN NEW_BENEFICIARY_POINTS ELSE 0)
        s4 == s3 + _check_unusual_time(hour)
    IN  s4 + (IF amount % ROUND_AMOUNT_UNIT = 0 /\ amount >= ROUND_AMOUNT_MIN
              THEN ROUND_AMOUNT_POINTS ELSE 0)

\* the score assess_risk returns, from what its five factors read
assess_risk(amount, count, is_new, hour) ==
    LET s1 == RISK_LOW + (IF amount > HIGH_AMOUNT_THRESHOLD THEN HIGH_AMOUNT_POINTS ELSE 0)
        s2 == s1 + _check_velocity(count)
        s3 == s2 + (IF is_new THEN NEW_BENEFICIARY_POINTS ELSE 0)
        s4 == s3 + _check_unusual_time(hour)
        s5 == s4 + (IF amount % ROUND_AMOUNT_UNIT = 0 /\ amount >= ROUND_AMOUNT_MIN
                    THEN ROUND_AMOUNT_POINTS ELSE 0)
    IN  IF s5 < RISK_CAP THEN s5 ELSE RISK_CAP

FraudUnchanged == <<state, store, account, checked, turn, pinned, now, io,
                    otp_key, verify, otp_log, apart>>

\* assess_risk: the score, the beneficiary added to the known ones and the
\* attempt recorded for the velocity check
AssessRisk ==
    \E amount \in Amounts : \E b \in Beneficiaries :
    \E is_new \in {_is_new_beneficiary(fraud.known, b)} :
        /\ fraud.count < MaxVelocity
        /\ fraud' = [fraud EXCEPT
                        !.count = @ + 1,
                        !.known = @ \cup {beneficiary_hash(b)},
                        !.asked = @ \cup {b},
                        !.flip = ~@,
                        !.last = [amount |-> amount, count |-> fraud.count,
                                  is_new |-> is_new, hour |-> fraud.hour,
                                  score |-> assess_risk(amount, fraud.count, is_new, fraud.hour),
                                  velocity |-> _check_velocity(fraud.count),
                                  assessed |-> TRUE]]
        /\ UNCHANGED FraudUnchanged

\* BENEFICIARY_EXPIRY_SECONDS pass without a new beneficiary: the key of the
\* user's set expires
BeneficiariesExpire ==
    /\ fraud.known # {}
    /\ fraud' = [fraud EXCEPT !.known = {}, !.asked = {}]
    /\ UNCHANGED FraudUnchanged

\* time passes: the oldest attempt leaves the velocity window
WindowSlides ==
    /\ fraud.count > 0
    /\ fraud' = [fraud EXCEPT !.count = @ - 1]
    /\ UNCHANGED FraudUnchanged

\* time passes: another hour of the day
HourChanges ==
    \E h \in Hours \ {fraud.hour} :
        /\ fraud' = [fraud EXCEPT !.hour = h]
        /\ UNCHANGED FraudUnchanged

FraudNext == AssessRisk \/ WindowSlides \/ HourChanges

FraudSpec == ServiceInit /\ [][FraudNext]_vars

\* C19: with the velocity count, the novelty of the beneficiary and the hour
\* of the last assessment held fixed, no smaller amount scores more and no
\* larger amount scores less than the amount assessed.
C19_MonotoneInAmount ==
    fraud.last.assessed =>
        \A a \in Amounts :
            LET s == assess_risk(a, fraud.last.count, fraud.last.is_new, fraud.last.hour)
            IN  /\ a <= fraud.last.amount => s <= fraud.last.score
                /\ a >= fraud.last.amount => s >= fraud.last.score

\* the points of the factors that apply to an assessment, added up
FactorPoints(l) ==
    LET P(applies, points) == IF applies THEN points ELSE 0
    IN  P(l.amount > HIGH_AMOUNT_THRESHOLD, HIGH_AMOUNT_POINTS)
        + P(l.count >= VELOCITY_LIMIT, VELOCITY_HIGH_RISK_POINTS)
        + P(l.count = VELOCITY_MEDIUM_LIMIT, VELOCITY_MEDIUM_RISK_POINTS)
        + P(l.is_new, NEW_BENEFICIARY_POINTS)
        + P(l.hour \in 0..4, UNUSUAL_TIME_HIGH_RISK_POINTS)
        + P(l.hour \in 22..23, UNUSUAL_TIME_MEDIUM_RISK_POINTS)
        + P(l.amount % ROUND_AMOUNT_UNIT = 0 /\ l.amount >= ROUND_AMOUNT_MIN,
            ROUND_AMOUNT_POINTS)

\* C20: the score assess_risk returns is a whole number from 0 to 100, and it
\* is the smaller of 100 and the sum of the points of the factors that apply.
C20_ScoreCapped ==
    fraud.last.assessed =>
        /\ fraud.last.score \in 0..100
        /\ \/ fraud.last.score = FactorPoints(fraud.last) /\ FactorPoints(fraud.last) <= 100
           \/ fraud.last.score = 100 /\ FactorPoints(fraud.last) > 100

C20_Witness ==
    /\ fraud.last.assessed
    /\ FactorPoints(fraud.last) > 100
    /\ fraud.last.score = 100

\* C21: every assess_risk call records one attempt, and its velocity points
\* come from the attempts that earlier calls recorded in the window: 40 for
\* three or more, 20 for exactly two, otherwise 0 (so the first and second
\* call of a burst get 0, the third 20, the fourth and later 40).
C21_VelocityFromEarlierCalls ==
    [][fraud'.flip # fraud.flip =>
          /\ fraud'.count = fraud.count + 1
          /\ fraud'.last.velocity = (IF fraud.count >= 3 THEN 40
                                     ELSE IF fraud.count = 2 THEN 20 ELSE 0)]_vars

C21_Witness ==
    /\ fraud.last.assessed
    /\ fraud.last.count = 3
    /\ fraud.last.velocity = 40
    /\ fraud.count = 4

\* the calls of one burst and the expiry of the user's set of beneficiaries
BeneficiaryNext == AssessRisk \/ BeneficiariesExpire

BeneficiarySpec == ServiceInit /\ [][BeneficiaryNext]_vars

\* the two names differ by the case of their letters at most
SameName(a, b) ==
    LET Fold(c) == CASE c = "A" -> "a" [] c = "B" -> "b" [] OTHER -> c
    IN  /\ Len(a) = Len(b)
        /\ \A i \in 1..Len(a) : Fold(Char(a, i)) = Fold(Char(b, i))

\* C35: the first assess_risk call for a beneficiary name, compared without
\* regard to case, counts the new-beneficiary points and records the name;
\* every later call for that name before the set expires counts none.
C35_NewBeneficiaryOnce ==
    [][fraud'.flip # fraud.flip =>
          LET named == fraud'.asked \ fraud.asked
              first == \E b \in named : \A a \in fraud.asked : ~SameName(a, b)
              Points(is_new) == assess_risk_uncapped(fraud'.last.amount, fraud'.last.count,
                                                     is_new, fraud'.last.hour)
          IN  /\ fraud'.last.is_new = first
              /\ \A b \in fraud'.asked : beneficiary_hash(b) \in fraud'.known
              /\ fraud'.last.score =
                     (IF Points(first) < RISK_CAP THEN Points(first) ELSE RISK_CAP)
              /\ Points(TRUE) = Points(FALSE) + NEW_BENEFICIARY_POINTS]_vars

\* a name was assessed in two cases, and the later call found it known
C35_Witness ==
    /\ fraud.last.assessed
    /\ ~fraud.last.is_new
    /\ fraud.asked = {"Alice", "alice"}
    /\ fraud.count = 2

(***************************************************************************)
(* The velocity record of FraudDetector under assess_risk calls of one     *)
(* user that overlap (several conversations, several workers).             *)
(*   vel.clock    datetime.utcnow().timestamp(), in the unit of its        *)
(*                resolution (a microsecond)                               *)
(*   vel.zset     the members of the sorted set fraud:velocity:{user_id};  *)
(*                a member is the text of a timestamp and its score is     *)
(*                that timestamp                                           *)
(*   vel.flying   the calls that have run _check_velocity and not yet      *)
(*                _record_transaction_attempt, as a bag of the counts      *)
(*                that zcount returned                                     *)
(*   vel.started, vel.done   calls begun and calls returned                *)
(* Starting a call takes time, so calls that run one after the other read  *)
(* different timestamps; calls that overlap may read the same one.         *)
(***************************************************************************)
VELOCITY_WINDOW_MINUTES == 10

\* how many assess_risk calls a behaviour has, and how often the clock
\* advances between their steps
MaxAssess == 3
MaxVelTicks == 2

\* timedelta(minutes=VELOCITY_WINDOW_MINUTES) in microseconds
VelocityWindow == VELOCITY_WINDOW_MINUTES * 60 * 1000000

\* redis.zcount(velocity_key, window_start_ts, now_ts)
zcount(zset, lo, hi) == Cardinality({ts \in zset : lo <= ts /\ ts <= hi})

\* redis.zadd(velocity_key, {str(timestamp): timestamp}): an existing member
\* keeps its place, only its score is set again
zadd(zset, ts) == zset \cup {ts}

VelUnchanged == <<state, store, account, checked, turn, pinned, now, io,
                  otp_key, verify, otp_log, fraud, orch, req, cls, rest>>

\* assess_risk up to the reply of zcount in _check_velocity
VelocityCheck ==
    \E t \in {vel.clock + 1} :
        /\ vel.started < MaxAssess
        /\ vel' = [vel EXCEPT
                      !.clock = t,
                      !.started = @ + 1,
                      !.flying = @ (+) SetToBag({zcount(vel.zset, t - VelocityWindow, t)})]
        /\ UNCHANGED VelUnchanged

\* _record_transaction_attempt of a call, and its return
RecordAttempt ==
    \E count \in BagToSet(vel.flying) :
        /\ vel' = [vel EXCEPT
                      !.zset = zadd(@, vel.clock),
                      !.flying = @ (-) SetToBag({count}),
                      !.done = @ + 1]
        /\ UNCHANGED VelUnchanged

\* time passes
VelocityTick ==
    /\ vel.ticks < MaxVelTicks
    /\ vel' = [vel EXCEPT !.clock = @ + 1, !.ticks = @ + 1]
    /\ UNCHANGED VelUnchanged

VelocityNext == VelocityCheck \/ RecordAttempt \/ VelocityTick

VelocitySpec == ServiceInit /\ [][VelocityNext]_vars

\* C22: after N assess_risk calls of one user have returned, in any
\* interleaving, the velocity record holds N attempts, so that a later
\* assessment in the window counts all of them.
C22_NoAttemptLost ==
    zcount(vel.zset, vel.clock - VelocityWindow, vel.clock) = vel.done

\* ---------------------------------------------------------------------------
\* BankingOrchestrator (src/services/banking/orchestrator.py) with the
\* validator, the mock banking API and the audit logger. Amounts are whole
\* numbers of the currency.
\* ---------------------------------------------------------------------------

OTP_AMOUNT_THRESHOLD == 500
RISK_HIGH == 75
OTP_RISK_THRESHOLD == RISK_HIGH
MAX_TRANSFER_AMOUNT == 50000
MAX_DAILY_TRANSFER == 10000
MOCK_BALANCE == 5000

\* how many commands one run of the orchestrator handles
MaxCommands == 2

MOCK_BENEFICIARIES == {"Paul", "Marie", "Sophie"}

\* the keys of process_command's handler_map
HandlerIntents ==
    {"faire_virement", "consulter_solde", "bloquer_carte", "ajouter_beneficiaire",
     "historique_transactions", "consulter_rib", "payer_facture", "changer_plafond"}

Montants == {NoInt, 0, 100, 500, 501, 5001, 10001, 50001}
Destinataires == {"Paul", "Zoe"}

\* the hours of the day commands arrive at
OrchHours == {3, 12}

\* the user when the orchestrator is first called: no transfer made yet, or
\* after nineteen transfers of 500 and one of 100 to Marie today, the last
\* three of them within the velocity window
Situations ==
    {[day_total |-> 0, count |-> 0, known |-> {}],
     [day_total |-> 9600, count |-> 3, known |-> {beneficiary_hash("Marie")}]}

\* validate_amount: None, anything below the minimum of one cent and anything
\* above the maximum are refused
validate_amount(amount) ==
    IF amount = NoInt THEN FALSE
    ELSE IF amount <= 0 THEN FALSE
    ELSE IF amount > MAX_TRANSFER_AMOUNT THEN FALSE
    ELSE TRUE

check_daily_limit(new_amount, today_total) ==
    ~(today_total + new_amount > MAX_DAILY_TRANSFER)

\* mock_api.check_beneficiary: the user's own list, or the default list for a
\* user who has none
check_beneficiary(bens, name) ==
    name \in (IF bens = << >> THEN MOCK_BENEFICIARIES ELSE bens[1])

\* mock_api.add_beneficiary: a user without a list gets an empty one first
add_beneficiary(bens, name) ==
    <<(IF bens = << >> THEN {} ELSE bens[1]) \cup {name}>>

\* what a handler did and returned
Outcome(status, reject, assessed, risk, is_new, requires_otp, otp, executed, has_txn, raised) ==
    [status |-> status, reject |-> reject, assessed |-> assessed, risk |-> risk,
     is_new |-> is_new, requires_otp |-> requires_otp, otp |-> otp,
     executed |-> executed, has_txn |-> has_txn, raised |-> raised]

Returned(status, reject) ==
    Outcome(status, reject, FALSE, 0, FALSE, FALSE, FALSE, FALSE, FALSE, FALSE)

\* a handler whose first Redis command failed: the exception reaches
\* process_command, which answers failed
Raised == Outcome("failed", "exception", FALSE, 0, FALSE, FALSE, FALSE, FALSE, FALSE, TRUE)

\* a transfer handler that scores the risk before it looks the beneficiary up
_handle_virement_assesses_first(montant, destinataire, bens, f, redis_up, exec_ok) ==
    IF ~validate_amount(montant) THEN Returned("failed", "amount")
    ELSE IF ~check_daily_limit(montant, 0) THEN Returned("failed", "daily_limit")
    ELSE IF montant > MOCK_BALANCE THEN Returned("failed", "balance")
    ELSE IF ~redis_up THEN Raised
    ELSE LET is_new == _is_new_beneficiary(f.known, destinataire)
             risk == assess_risk(montant, f.count, is_new, f.hour)
         IN  IF ~check_beneficiary(bens, destinataire)
             THEN Outcome("pending", "beneficiary", TRUE, risk, is_new,
                          FALSE, FALSE, FALSE, FALSE, FALSE)
             ELSE IF montant > OTP_AMOUNT_THRESHOLD \/ risk > OTP_RISK_THRESHOLD
             THEN Outcome("pending", "none", TRUE, risk, is_new, TRUE, TRUE, FALSE, FALSE, FALSE)
             ELSE Outcome(IF exec_ok THEN "success" ELSE "failed", "none", TRUE, risk,
                          is_new, FALSE, FALSE, TRUE, exec_ok, FALSE)

\* a transfer handler that executes the transfer although it asked for an OTP
_handle_virement_executes_anyway(montant, destinataire, bens, f, redis_up, exec_ok) ==
    IF ~validate_amount(montant) THEN Returned("failed", "amount")
    ELSE IF ~check_daily_limit(montant, 0) THEN Returned("failed", "daily_limit")
    ELSE IF montant > MOCK_BALANCE THEN Returned("failed", "balance")
    ELSE IF ~check_beneficiary(bens, destinataire) THEN Returned("pending", "beneficiary")
    ELSE IF ~redis_up THEN Raised
    ELSE LET is_new == _is_new_beneficiary(f.known, destinataire)
             risk == assess_risk(montant, f.count, is_new, f.hour)
         IN  IF montant > OTP_AMOUNT_THRESHOLD \/ risk > OTP_RISK_THRESHOLD
             THEN Outcome("pending", "none", TRUE, risk, is_new, TRUE, TRUE, TRUE, exec_ok, FALSE)
             ELSE Outcome(IF exec_ok THEN "success" ELSE "failed", "none", TRUE, risk,
                          is_new, FALSE, FALSE, TRUE, exec_ok, FALSE)

\* _handle_virement: amount, daily limit (today's total left at its default
\* of 0), balance, beneficiary, risk, then an OTP or the transfer; f is the
\* fraud detector's state for the user
_handle_virement(montant, destinataire, bens, f, redis_up, exec_ok) ==
    IF ~validate_amount(montant) THEN Returned("failed", "amount")
    ELSE IF ~check_daily_limit(montant, 0) THEN Returned("failed", "daily_limit")
    ELSE IF montant > MOCK_BALANCE THEN Returned("failed", "balance")
    ELSE LET beneficiary_exists == check_beneficiary(bens, destinataire)
         IN  IF ~beneficiary_exists THEN Returned("pending", "beneficiary")
             ELSE IF ~redis_up THEN Raised
             ELSE LET is_new == _is_new_beneficiary(f.known, destinataire)
                      risk_score == assess_risk(montant, f.count, is_new, f.hour)
                      requires_otp == \/ montant > OTP_AMOUNT_THRESHOLD
                                      \/ risk_score > OTP_RISK_THRESHOLD
                                      \/ ~beneficiary_exists
                  IN  IF requires_otp
                      THEN Outcome("pending", "none", TRUE, risk_score, is_new,
                                   TRUE, TRUE, FALSE, FALSE, FALSE)
                      ELSE Outcome(IF exec_ok THEN "success" ELSE "failed", "none", TRUE,
                                   risk_score, is_new, FALSE, FALSE, TRUE, exec_ok, FALSE)

\* _handle_bloquer_carte: the mock always has a card and blocks it, then a
\* confirmation code is generated
_handle_bloquer_carte(redis_up) ==
    IF ~redis_up THEN Raised
    ELSE Outcome("success", "none", FALSE, 0, FALSE, FALSE, TRUE, FALSE, FALSE, FALSE)

\* _handle_ajouter_beneficiaire: an IBAN that is given must be valid
_handle_ajouter_beneficiaire(iban) ==
    IF iban = "invalid" THEN Returned("failed", "iban") ELSE Returned("success", "none")

\* _handle_payer_facture: amount and balance, then the mock pays the bill
_handle_payer_facture(montant) ==
    IF ~validate_amount(montant) THEN Returned("failed", "amount")
    ELSE IF montant > MOCK_BALANCE THEN Returned("failed", "balance")
    ELSE Returned("success", "none")

\* _handle_changer_plafond: always asks for an OTP
_handle_changer_plafond(redis_up) ==
    IF ~redis_up THEN Raised
    ELSE Outcome("pending", "none", FALSE, 0, FALSE, TRUE, TRUE, FALSE, FALSE, FALSE)

\* the handler process_command picks for the intent, run on the entities;
\* an intent without handler is answered failed
handler_map(intent, montant, destinataire, iban, bens, f, redis_up, exec_ok) ==
    CASE intent = "faire_virement" ->
            _handle_virement(montant, destinataire, bens, f, redis_up, exec_ok)
      [] intent = "bloquer_carte" -> _handle_bloquer_carte(redis_up)
      [] intent = "ajouter_beneficiaire" -> _handle_ajouter_beneficiaire(iban)
      [] intent = "payer_facture" -> _handle_payer_facture(montant)
      [] intent = "changer_plafond" -> _handle_changer_plafond(redis_up)
      [] intent \in {"consulter_solde", "historique_transactions", "consulter_rib"} ->
            Returned("success", "none")
      [] OTHER -> Returned("failed", "unknown_intent")

\* an audit logger that writes no result entry for an intent without handler
audit_trail_skips_unknown(h, writable) ==
    IF ~writable THEN << >>
    ELSE <<"command">>
         \o (IF h.raised THEN <<"error">>
             ELSE IF h.reject = "unknown_intent" THEN << >>
             ELSE (IF h.has_txn THEN <<"transaction">> ELSE << >>) \o <<"result">>)

\* the entries process_command has written when it returns: log_command,
\* then log_error if the handler raised, else log_result, which writes the
\* transaction entry first when the result has a transaction_id; _write_log
\* drops an entry it cannot write
audit_trail(h, writable) ==
    IF ~writable THEN << >>
    ELSE <<"command">>
         \o (IF h.raised THEN <<"error">>
             ELSE (IF h.has_txn THEN <<"transaction">> ELSE << >>) \o <<"result">>)

\* the entities a command of the intent may carry
Entities(intent) ==
    CASE intent = "faire_virement" -> Montants \X Destinataires \X {"none"}
      [] intent = "ajouter_beneficiaire" -> {NoInt} \X Destinataires \X {"none", "valid", "invalid"}
      [] intent = "payer_facture" -> {NoInt, 100, 5001} \X {""} \X {"none"}
      [] intent = "changer_plafond" -> {100} \X {""} \X {"none"}
      [] OTHER -> {NoInt} \X {""} \X {"none"}

OrchUnchanged == <<state, store, account, checked, turn, pinned, now, io,
                   vel, req, cls, rest>>

\* the action and the keywords the handler of the intent passes to
\* generate_otp
otp_action(intent) ==
    CASE intent = "faire_virement" -> "virement"
      [] OTHER -> intent

otp_keywords(intent, e) ==
    CASE intent = "faire_virement" -> otp_metadata({"amount", "beneficiary"}, e[1], e[2])
      [] intent = "changer_plafond" -> otp_metadata({"amount"}, e[1], e[2])
      [] OTHER -> NoMetadata

\* process_command(intent, entities, conversation_id, user_id) from its call
\* to its return, with what its handler did to the fraud detector, the OTP
\* service and the bank
Command(kind, intent, e, redis_up, exec_ok, writable, code) ==
    \E h \in {handler_map(intent, e[1], e[2], e[3], orch.bens, fraud, redis_up, exec_ok)} :
        /\ orch.calls < MaxCommands
        /\ h.assessed => fraud.count < MaxVelocity
        /\ h.otp => otp_log.gen < MaxGenerate
        /\ fraud' = IF h.assessed
                    THEN [fraud EXCEPT !.count = @ + 1,
                                       !.known = @ \cup {beneficiary_hash(e[2])}]
                    ELSE fraud
        /\ otp_key' = IF h.otp
                      THEN generate_otp(otp_key, code, otp_log.gen + 1,
                                        otp_action(intent), otp_keywords(intent, e))
                      ELSE otp_key
        /\ otp_log' = IF h.otp
                      THEN [NoOtpLog EXCEPT !.gen = otp_log.gen + 1, !.code = code,
                                            !.calls = otp_log.calls,
                                            !.action = otp_action(intent),
                                            !.metadata = otp_keywords(intent, e)]
                      ELSE otp_log
        /\ orch' = [calls |-> orch.calls + 1,
                    day_total |-> orch.day_total + (IF h.has_txn THEN e[1] ELSE 0),
                    bens |-> IF intent = "ajouter_beneficiaire" /\ h.status = "success"
                             THEN add_beneficiary(orch.bens, e[2]) ELSE orch.bens,
                    pending |-> IF intent = "faire_virement" /\ h.requires_otp THEN TRUE
                                ELSE orch.pending,
                    last |-> [kind |-> kind, intent |-> intent, montant |-> e[1],
                              dest |-> e[2], writable |-> writable, status |-> h.status,
                              reject |-> h.reject, assessed |-> h.assessed,
                              risk |-> h.risk, is_new |-> h.is_new,
                              requires_otp |-> h.requires_otp, otp |-> h.otp,
                              executed |-> h.executed, has_txn |-> h.has_txn,
                              raised |-> h.raised,
                              trail |-> audit_trail(h, writable)]]
        /\ UNCHANGED <<verify, OrchUnchanged>>

\* a turn of the user that carries a banking command
ProcessCommand ==
    \E intent \in HandlerIntents \cup {"unknown"} : \E e \in Entities(intent) :
    \E redis_up \in BOOLEAN : \E exec_ok \in BOOLEAN : \E writable \in BOOLEAN :
    \E code \in Codes :
        /\ Command("command", intent, e, redis_up, exec_ok, writable, code)

\* validate_entities' table of the entities an intent requires; an intent
\* the table lacks requires none
required_entities(intent) ==
    CASE intent = "faire_virement" -> <<"montant", "destinataire">>
      [] intent = "ajouter_beneficiaire" -> <<"destinataire">>
      [] intent = "payer_facture" -> <<"montant", "facture">>
      [] intent = "changer_plafond" -> <<"montant">>
      [] OTHER -> << >>

\* a validation that takes an entity of value zero for a missing one
validate_entities_by_value(intent, entities) ==
    LET required == required_entities(intent)
        Absent(name) == \/ name \notin DOMAIN entities
                        \/ name = "montant" /\ entities[name] = 0
        missing == SelectSeq(required, Absent)
    IN  [ok |-> Len(missing) = 0, missing |-> missing]

\* entity_extractor.validate_entities: (is_valid, missing), the required
\* names that are no key of entities, in the order of the table
validate_entities(intent, entities) ==
    LET required == required_entities(intent)
        Absent(name) == name \notin DOMAIN entities
        missing == SelectSeq(required, Absent)
    IN  [ok |-> Len(missing) = 0, missing |-> missing]

\* process_text_with_nlu on the turn after a transfer was left pending, the
\* text being the code: the classifier's answer is not known ("none" when its
\* confidence is below 0.6), the text holds no entity; OTPService.verify_otp
\* is called on no path
OtpReply ==
    /\ orch.pending
    /\ otp_key # << >>
    /\ \E intent \in HandlerIntents \cup {"unknown", "none"} :
           IF intent = "none" \/ ~validate_entities(intent, NoEntities).ok
           THEN /\ orch' = [orch EXCEPT !.last = [NoOrch(0).last EXCEPT
                                                    !.kind = "otp_reply_unanswered",
                                                    !.intent = intent]]
                /\ UNCHANGED <<fraud, otp_key, otp_log, verify, OrchUnchanged>>
           ELSE \E redis_up \in BOOLEAN : \E writable \in BOOLEAN : \E code \in Codes :
                    Command("otp_reply", intent, <<NoInt, "", "none">>, redis_up, TRUE,
                            writable, code)

\* the hour of the day moves on between commands
OrchClock ==
    \E h \in OrchHours \ {fraud.hour} :
        /\ fraud' = [fraud EXCEPT !.hour = h]
        /\ UNCHANGED <<orch, otp_key, otp_log, verify, OrchUnchanged>>

OrchNext == ProcessCommand \/ OtpReply \/ OrchClock

\* the fraud detector's keys and the day's total are those of the situation
OrchInit ==
    /\ Start
    /\ ~account
    /\ conc = NoConc
    /\ \E s \in Situations :
           /\ fraud = [NoFraud EXCEPT !.count = s.count, !.known = s.known]
           /\ orch = NoOrch(s.day_total)

OrchSpec == OrchInit /\ [][OrchNext]_vars

EarlyRejections == {"amount", "daily_limit", "balance", "beneficiary"}

\* C23: a transfer command rejected by an early check (amount, daily limit,
\* balance: failed; unknown beneficiary: pending) leaves the fraud detector's
\* velocity and beneficiary state as they were, generates no OTP and does not
\* call execute_transfer.
C23_EarlyRejectionRunsNoLaterStage ==
    [][(/\ orch'.calls = orch.calls + 1
        /\ orch'.last.intent = "faire_virement"
        /\ orch'.last.reject \in EarlyRejections)
       => /\ fraud' = fraud
          /\ otp_key' = otp_key
          /\ otp_log' = otp_log
          /\ ~orch'.last.assessed
          /\ ~orch'.last.otp
          /\ ~orch'.last.executed
          /\ orch'.day_total = orch.day_total
          /\ orch'.last.status = (IF orch'.last.reject = "beneficiary" THEN "pending"
                                  ELSE "failed")]_vars

\* a transfer to an unknown beneficiary was answered pending after earlier
\* transfers had been risk-scored
C23_Witness ==
    /\ orch.last.intent = "faire_virement"
    /\ orch.last.reject = "beneficiary"
    /\ orch.last.status = "pending"
    /\ fraud.count > 0

\* C24: for a transfer that passed the earlier checks, requires_otp is true
\* exactly when the amount is above OTP_AMOUNT_THRESHOLD, or the risk score is
\* above OTP_RISK_THRESHOLD, or the beneficiary is new for this user.
C24_NewBeneficiaryRequiresOtp ==
    (orch.last.intent = "faire_virement" /\ orch.last.assessed) =>
        (orch.last.requires_otp <=> \/ orch.last.montant > OTP_AMOUNT_THRESHOLD
                                    \/ orch.last.risk > OTP_RISK_THRESHOLD
                                    \/ orch.last.is_new)

\* C25: the invocation that issues the OTP of a transfer returns pending with
\* requires_otp true and does not call execute_transfer; execute_transfer is
\* called for no transfer that required an OTP, and on no later turn that
\* was not preceded by a valid verify_otp.
C25_NoExecutionWithOtpPending ==
    /\ (orch.last.intent = "faire_virement" /\ orch.last.requires_otp) =>
            /\ orch.last.status = "pending"
            /\ orch.last.otp
            /\ ~orch.last.executed
            /\ ~orch.last.has_txn
    /\ orch.last.executed => ~orch.last.requires_otp /\ orch.last.kind = "command"

\* a transfer above the threshold was answered pending and its OTP is stored
C25_Witness ==
    /\ orch.last.intent = "faire_virement"
    /\ orch.last.requires_otp
    /\ orch.last.montant > OTP_AMOUNT_THRESHOLD
    /\ orch.last.status = "pending"
    /\ otp_key # << >>
    /\ orch.pending

\* C26: after a transfer was answered pending with requires_otp true, the
\* next turn supplying the correct OTP executes the transfer and is answered
\* with status success and a transaction_id.
C26_CorrectOtpExecutes ==
    orch.last.kind \in {"otp_reply", "otp_reply_unanswered"} =>
        /\ orch.last.executed
        /\ orch.last.status = "success"
        /\ orch.last.has_txn

\* C27: the amounts of the user's transfers executed in one day never add up
\* to more than MAX_DAILY_TRANSFER.
C27_DailyTotalWithinLimit == orch.day_total <= MAX_DAILY_TRANSFER

max_retries == 3

\* the retry counts a client may be built with
RetryCounts == {0, 1, max_retries}

\* what one attempt meets: a response (status and kind of body) or, with
\* status 0, an httpx.RequestError (no connection, timeout)
Responses ==
    {[status |-> 200, body |-> "json"], [status |-> 200, body |-> "empty"],
     [status |-> 200, body |-> "garbage"], [status |-> 404, body |-> "json"],
     [status |-> 404, body |-> "garbage"], [status |-> 500, body |-> "json"],
     [status |-> 502, body |-> "garbage"], [status |-> 503, body |-> "empty"],
     [status |-> 0, body |-> "none"]}

Finished(r, resp, raised, status_code) ==
    [r EXCEPT !.attempt = @ + 1, !.history = Append(@, resp), !.done = TRUE,
              !.raised = raised, !.status_code = status_code]

NextAttempt(r, resp) == [r EXCEPT !.attempt = @ + 1, !.history = Append(@, resp)]

\* clients/backend_client.py _request, one round of its loop over the
\* attempts: the call after the round
_request(r, resp) ==
    LET attempt == r.attempt + 1
    IN  IF resp.status = 0
        THEN IF attempt < r.max_retries THEN NextAttempt(r, resp)
             ELSE Finished(r, resp, "BackendAPIError", 503)
        ELSE IF resp.status >= 400
        THEN IF 500 <= resp.status /\ resp.status < 600 /\ attempt < r.max_retries
             THEN NextAttempt(r, resp)
             ELSE Finished(r, resp, "BackendAPIError", resp.status)
        ELSE IF resp.body = "empty" THEN Finished(r, resp, "none", resp.status)
        ELSE IF resp.body = "garbage" THEN Finished(r, resp, "BackendAPIError", 500)
        ELSE Finished(r, resp, "none", resp.status)

\* services/backend/client.py _request: one attempt; response.json() is called
\* on any body that is not empty, outside any handler of its failure
services_request(r, resp) ==
    IF resp.status = 0 THEN Finished(r, resp, "BackendAPIError", 503)
    ELSE IF resp.body = "garbage" THEN Finished(r, resp, "JSONDecodeError", 0)
    ELSE IF resp.status >= 400 THEN Finished(r, resp, "BackendAPIError", resp.status)
    ELSE Finished(r, resp, "none", resp.status)

ReqUnchanged == <<state, store, account, checked, turn, pinned, now, io,
                  otp_key, verify, otp_log, fraud, vel, orch, cls, rest>>

\* a caller enters _request of one of the two clients
NewRequest ==
    /\ req.done
    /\ \/ \E n \in RetryCounts : req' = NewCall("clients", n)
       \/ req' = NewCall("services", 1)
    /\ UNCHANGED ReqUnchanged

\* one attempt and what _request does with its outcome
Attempt ==
    \E resp \in Responses :
        /\ ~req.done
        /\ req.attempt < req.max_retries
        /\ req' = IF req.client = "clients" THEN _request(req, resp)
                  ELSE services_request(req, resp)
        /\ UNCHANGED ReqUnchanged

\* the loop of a client built with no attempt allowed ends at once and the
\* statement after it raises
LoopEnds ==
    /\ ~req.done
    /\ req.attempt >= req.max_retries
    /\ req' = [req EXCEPT !.done = TRUE, !.raised = "BackendAPIError", !.status_code = 503]
    /\ UNCHANGED ReqUnchanged

RequestNext == NewRequest \/ Attempt \/ LoopEnds

RequestSpec == ServiceInit /\ [][RequestNext]_vars

Transient(resp) == resp.status = 0 \/ (500 <= resp.status /\ resp.status < 600)

\* C29: a request is tried again only after a 5xx response or a network
\* error, makes at most max_retries attempts and then fails with a
\* BackendAPIError; a 4xx response and a successful response are the last
\* attempt of their request.
C29_BoundedRetryThenBackendError ==
    LET h == req.history
    IN  /\ req.attempt <= req.max_retries
        /\ Len(h) = req.attempt
        /\ \A i \in 1..Len(h) : i < Len(h) => Transient(h[i])
        /\ \A i \in 1..Len(h) : ~Transient(h[i]) => req.done
        /\ (req.done /\ req.raised # "none") => req.raised = "BackendAPIError"
        /\ (req.done /\ req.client # "none" /\ req.raised = "none") =>
                h[Len(h)].status = 200

\* ---------------------------------------------------------------------------
\* IntentClassifier.classify with its confidence (app/core/intent/classifier.py).
\* Scores are in tenths. Utterances are one to MaxWords words of ClassifyWords
\* joined by single blanks, lower-case and without hyphens, so _normalize_text
\* leaves them as they are.
\* ---------------------------------------------------------------------------

PHRASE_SCORE == 8
KEYWORD_SCORE == 5
CONTEXT_SCORE == 2
SHORT_BOOST == 3
SCORE_CAP == 10
ACCEPT_THRESHOLD == 4
FALLBACK_CONFIDENCE == 5
OFF_TOPIC_CONFIDENCE == 9

MaxWords == 3

ClassifyWords == {"withdraw", "money", "my", "account", "create", "hello", "weather"}

\* the entries of blocked_phrases that utterances over ClassifyWords can hold
blocked_phrases == {"weather"}

\* intent_patterns in the order of the source, each list cut down to the
\* entries that utterances over ClassifyWords can match; intents left with
\* three empty lists score 0 and are left out
intent_patterns ==
    <<[intent |-> "account_creation", phrases |-> {"create account"},
       keywords |-> {"create"}, context |-> {"account"}],
      [intent |-> "view_account", phrases |-> {"my account"},
       keywords |-> {"my account"}, context |-> {"account", "my"}],
      [intent |-> "withdrawal", phrases |-> {"withdraw money"},
       keywords |-> {"withdraw"}, context |-> {"money"}],
      [intent |-> "topup", phrases |-> {}, keywords |-> {},
       context |-> {"account", "money"}],
      [intent |-> "transfer", phrases |-> {}, keywords |-> {}, context |-> {"money"}],
      [intent |-> "balance_inquiry", phrases |-> {}, keywords |-> {},
       context |-> {"account", "money", "my"}],
      [intent |-> "transaction_history", phrases |-> {}, keywords |-> {},
       context |-> {"account"}],
      [intent |-> "greeting", phrases |-> {}, keywords |-> {"hello"}, context |-> {}],
      [intent |-> "whatsapp_link", phrases |-> {}, keywords |-> {},
       context |-> {"account"}]>>

\* regex \bword\b on a text of letters and blanks
_has_word(text, word) ==
    \E i \in 1..(Len(text) - Len(word) + 1) :
        /\ SubSeq(text, i, i + Len(word) - 1) = word
        /\ (i = 1 \/ Char(text, i - 1) \notin (LetterChars \cup DigitChars))
        /\ (i + Len(word) > Len(text)
            \/ Char(text, i + Len(word)) \notin (LetterChars \cup DigitChars))

\* a keyword or context word of several words matches as a substring, a
\* single word as a whole word
pattern_matches(k, text) ==
    IF Contains(" ", k) THEN Contains(k, text) ELSE _has_word(text, k)

\* the score of one intent: the first phrase, the first keyword, the first
\* context word, the boost of a short utterance with a keyword, the cap
intent_score(patterns, text) ==
    LET keyword_found == \E k \in patterns.keywords : pattern_matches(k, text)
        score == (IF \E p \in patterns.phrases : Contains(p, text) THEN PHRASE_SCORE ELSE 0)
                 + (IF keyword_found THEN KEYWORD_SCORE ELSE 0)
                 + (IF \E c \in patterns.context : pattern_matches(c, text)
                    THEN CONTEXT_SCORE ELSE 0)
                 + (IF keyword_found /\ Len(Words(text)) <= 2 THEN SHORT_BOOST ELSE 0)
    IN  IF score < SCORE_CAP THEN score ELSE SCORE_CAP

\* max(scores, key=scores.get): the first intent with the highest score
best_of(text) ==
    LET scores == [i \in 1..Len(intent_patterns) |-> intent_score(intent_patterns[i], text)]
        best == CHOOSE i \in 1..Len(intent_patterns) :
                    /\ \A j \in 1..Len(intent_patterns) : scores[j] <= scores[i]
                    /\ \A j \in 1..(i - 1) : scores[j] < scores[i]
    IN  [intent |-> intent_patterns[best].intent, score |-> scores[best]]

\* classify(text) with the confidence it returns
classify_with_score(text) ==
    IF text = "" THEN [intent |-> "general_support", confidence |-> 0]
    ELSE IF \E phrase \in blocked_phrases : Contains(phrase, text)
    THEN [intent |-> "off_topic", confidence |-> OFF_TOPIC_CONFIDENCE]
    ELSE LET best == best_of(text)
         IN  IF best.score >= ACCEPT_THRESHOLD
             THEN [intent |-> best.intent, confidence |-> best.score]
             ELSE [intent |-> "general_support", confidence |-> FALLBACK_CONFIDENCE]

ClsUnchanged == <<state, store, account, checked, turn, pinned, now, io,
                  otp_key, verify, otp_log, fraud, vel, orch, req, rest>>

\* one call of classify on an utterance
Classify ==
    \E n \in 1..MaxWords : \E ws \in [1..n -> ClassifyWords] :
    \E text \in {JoinWords(ws)} : \E r \in {classify_with_score(text)} :
        /\ cls' = [text |-> text, intent |-> r.intent, confidence |-> r.confidence]
        /\ UNCHANGED ClsUnchanged

ClassifyNext == Classify

ClassifySpec == ServiceInit /\ [][ClassifyNext]_vars

\* C30: classify returns the intent with the best score when that score is
\* at least 0.4; when the best score is below 0.4 it returns GeneralSupport
\* with that best score as confidence, a confidence below the threshold.
C30_RejectedConfidenceIsBestScore ==
    (cls.text # "" /\ cls.intent # "off_topic") =>
        LET best == best_of(cls.text)
        IN  IF best.score >= ACCEPT_THRESHOLD
            THEN cls.intent = best.intent /\ cls.confidence = best.score
            ELSE /\ cls.intent = "general_support"
                 /\ cls.confidence = best.score
                 /\ cls.confidence < ACCEPT_THRESHOLD

\* ---------------------------------------------------------------------------
\* BankingEntityExtractor (src/services/nlu/entity_extractor.py)
\* ---------------------------------------------------------------------------

\* the entity maps validate_entities is called with: any of the keys montant
\* (a number, zero included), destinataire, facture and iban
EntityMaps ==
    LET Value(k, montant) == CASE k = "montant" -> montant
                               [] k = "destinataire" -> "Paul"
                               [] k = "facture" -> "ORANGE"
                               [] OTHER -> "FR7630003000010000000123456"
    IN  {[k \in K |-> Value(k, montant)] :
            K \in SUBSET {"montant", "destinataire", "facture", "iban"},
            montant \in {0, 100}}

NluUnchanged == <<state, store, account, checked, turn, pinned, now, io,
                  otp_key, verify, otp_log, fraud, vel, orch, req, cls, conc>>

\* one call of validate_entities; it assigns to nothing but its locals
ValidateEntities ==
    \E intent \in HandlerIntents \cup {"unknown"} : \E entities \in EntityMaps :
    \E r \in {validate_entities(intent, entities)} :
        /\ nlu' = [op |-> "validate", intent |-> intent, text |-> "", canonical |-> "",
                    entities |-> entities, ok |-> r.ok, missing |-> r.missing]
        /\ UNCHANGED NluUnchanged

\* C31: validate_entities returns as missing exactly the required names of
\* the intent that are no key of the entity map, each once, and ok exactly
\* when none is missing; a second call with the same inputs returns the same.
C31_MissingExactlyTheAbsentKeys ==
    nlu.op = "validate" =>
        LET required == required_entities(nlu.intent)
            Names(q) == {q[i] : i \in 1..Len(q)}
        IN  /\ Names(nlu.missing) = Names(required) \ DOMAIN nlu.entities
            /\ Cardinality(Names(nlu.missing)) = Len(nlu.missing)
            /\ nlu.ok <=> (Names(required) \subseteq DOMAIN nlu.entities)
            /\ validate_entities(nlu.intent, nlu.entities)
                    = [ok |-> nlu.ok, missing |-> nlu.missing]

\* a transfer with an amount of zero and no beneficiary: only the
\* beneficiary is missing
C31_Witness ==
    /\ nlu.op = "validate"
    /\ nlu.intent = "faire_virement"
    /\ DOMAIN nlu.entities = {"montant"}
    /\ nlu.entities["montant"] = 0
    /\ nlu.missing = <<"destinataire">>
    /\ ~nlu.ok

\* the amounts of the utterances: the digits before and after the thousands
\* separator, the separator ("" in the canonical writing), the currency marker
AmountHeads == {"1", "10", "250"}
AmountTails == {"000", "500"}
Separators == {"", " ", ",", "."}
CurrencyMarkers == {" euros", " eur", " fcfa", " francs"}

AllIn(t, chars) == \A i \in 1..Len(t) : Char(t, i) \in chars

StartsWith(t, i, w) == i + Len(w) - 1 <= Len(t) /\ SubSeq(t, i, i + Len(w) - 1) = w

\* PATTERNS["montant"], its first two patterns: group 1 of the leftmost match
\* of number, blanks, currency marker, where the number is a digit, then
\* digits and blanks, then at most one comma or period followed by digits;
\* the regex takes the longest run of digits and blanks, then the longest
\* decimal part. "" when neither matches. The utterances hold no "f cfa",
\* no lone "f" and none of the words of the third pattern.
montant_group(t, markers) ==
    LET Ends(i) ==
            {<<j, k>> \in (i..Len(t)) \X (i..Len(t)) :
                /\ AllIn(SubSeq(t, i + 1, j), DigitChars \cup {" "})
                /\ \/ k = j
                   \/ /\ k >= j + 2
                      /\ Char(t, j + 1) \in {",", "."}
                      /\ AllIn(SubSeq(t, j + 2, k), DigitChars)
                /\ \E q \in k..Len(t) :
                       /\ AllIn(SubSeq(t, k + 1, q), {" "})
                       /\ \E m \in markers : StartsWith(t, q + 1, m)}
        starts == {i \in 1..Len(t) : Char(t, i) \in DigitChars /\ Ends(i) # {}}
    IN  IF starts = {} THEN ""
        ELSE LET i == Least(starts)
                 j == CHOOSE j \in {e[1] : e \in Ends(i)} :
                        \A e \in Ends(i) : e[1] <= j
                 k == CHOOSE k \in {e[2] : e \in {f \in Ends(i) : f[1] = j}} :
                        \A e \in {f \in Ends(i) : f[1] = j} : e[2] <= k
             IN  SubSeq(t, i, k)

\* _extract_entity for montant: the first pattern that matches, stripped
extract_montant_group(t) ==
    LET euros == montant_group(t, {"eur"})
        francs == montant_group(t, {"franc", "fcfa", "xaf", "xof"})
        RECURSIVE rstrip(_)
        rstrip(w) == IF w # "" /\ Char(w, Len(w)) = " "
                     THEN rstrip(SubSeq(w, 1, Len(w) - 1)) ELSE w
    IN  rstrip(IF euros # "" THEN euros ELSE francs)

RECURSIVE ReplaceChar(_, _, _)
ReplaceChar(t, a, b) ==
    IF Len(t) = 0 THEN ""
    ELSE (IF Char(t, 1) = a THEN b ELSE Char(t, 1)) \o ReplaceChar(SubSeq(t, 2, Len(t)), a, b)

\* float(amount_str) in thousandths, for a digit string with at most one
\* period and at most three digits after it
float_thousandths(w) ==
    LET dots == {i \in 1..Len(w) : Char(w, i) = "."}
        d == IF dots = {} THEN Len(w) + 1 ELSE Least(dots)
        frac == SubSeq(w, d + 1, Len(w))
        pad == CASE Len(frac) = 0 -> 1000 [] Len(frac) = 1 -> 100
                 [] Len(frac) = 2 -> 10 [] OTHER -> 1
    IN  ParseInt(SubSeq(w, 1, d - 1)) * 1000
        + (IF frac = "" THEN 0 ELSE ParseInt(frac) * pad)

\* extract, the montant only: the group without blanks, its comma turned
\* into a period, as a float (in thousandths); no key when nothing matched
extract(t) ==
    LET g == extract_montant_group(t)
        amount_str == ReplaceChar(RemoveSpaces(g), ",", ".")
    IN  IF g = "" THEN NoEntities
        ELSE [k \in {"montant"} |-> float_thousandths(amount_str)]

\* every amount with its currency marker
AmountTexts ==
    {h \o sep \o l \o marker : h \in AmountHeads, l \in AmountTails,
                                 sep \in Separators, marker \in CurrencyMarkers}

\* extract on every utterance, computed once
Extracted == [t \in AmountTexts |-> extract(t)]

\* one call of extract on an amount with its currency marker
ExtractAmount ==
    \E h \in AmountHeads : \E l \in AmountTails : \E sep \in Separators :
    \E marker \in CurrencyMarkers : \E text \in {h \o sep \o l \o marker} :
        /\ nlu' = [op |-> "extract", intent |-> "none", text |-> text,
                    canonical |-> h \o l \o marker, entities |-> Extracted[text],
                    ok |-> TRUE, missing |-> << >>]
        /\ UNCHANGED NluUnchanged

NluNext == ValidateEntities \/ ExtractAmount

NluSpec == ServiceInit /\ [][NluNext]_vars

\* C32: an amount written with a blank, a comma or a period between its
\* thousands, followed by a currency marker, yields the montant of the same
\* digits written without separator.
C32_SeparatorsParseAlike ==
    nlu.op = "extract" =>
        /\ "montant" \in DOMAIN nlu.entities
        /\ nlu.entities = Extracted[nlu.canonical]

(***************************************************************************)
(* What the money flows hold when they ask for confirmation                *)
(***************************************************************************)
\* the flow is at the given step of the given flow
AtStep(ft, step) == state.flow_type = ft /\ state.flow_step = step

\* the cached balance is unknown or covers the amount
WithinBalance(amount) ==
    state.account_balance = NoBalance \/ amount <= state.account_balance

\* C33: whenever the Transfer flow is at Confirm or at Complete, collected_data
\* holds a receiver phone of at least 8 digits, an amount above zero that the
\* cached balance covers when it is known, and a PIN of 4 to 6 digits.
C33_TransferConfirmHoldsValidData ==
    (state.flow_type = "transfer" /\ state.flow_step \in {"confirm", "complete"}) =>
        /\ {"receiverPhoneNumber", "amount", "pin"} \subseteq DOMAIN state.collected_data
        /\ IsDigitStr(get_data(state, "receiverPhoneNumber"))
        /\ Len(get_data(state, "receiverPhoneNumber")) >= MIN_PHONE_DIGITS
        /\ IsDigitStr(get_data(state, "amount"))
        /\ ParseInt(get_data(state, "amount")) > 0
        /\ WithinBalance(ParseInt(get_data(state, "amount")))
        /\ IsDigitStr(get_data(state, "pin"))
        /\ Len(get_data(state, "pin")) \in 4..6

\* a transfer waits for its confirmation, the three answers collected
C33_Witness ==
    /\ AtStep("transfer", "confirm")
    /\ {"receiverPhoneNumber", "amount", "pin"} \subseteq DOMAIN state.collected_data
    /\ turn.kind = "flow"

\* C34: whenever the Withdrawal flow is at Confirm, the stored amount lies
\* between WITHDRAWAL_MIN and WITHDRAWAL_MAX and the cached balance covers it
\* when it is known.
C34_WithdrawalConfirmWithinLimits ==
    AtStep("withdrawal", "confirm") =>
        /\ "amount" \in DOMAIN state.collected_data
        /\ state.collected_data["amount"] >= WITHDRAWAL_MIN
        /\ state.collected_data["amount"] <= WITHDRAWAL_MAX
        /\ WithinBalance(state.collected_data["amount"])

\* a withdrawal waits for its confirmation with the balance known
C34_Witness ==
    /\ AtStep("withdrawal", "confirm")
    /\ "amount" \in DOMAIN state.collected_data
    /\ state.account_balance # NoBalance

(***************************************************************************)
(* One conversation id served by two workers (manager.py process_message). *)
(* Every request builds a ConversationState of its own from the store,     *)
(* works on it and saves it; the requests are suspended at the backend     *)
(* call of flow.complete() and at the store.                               *)
(*   conc.store   the conversation store: the dictionary last saved        *)
(*   conc.moved   the money movements the backend has executed             *)
(*   conc.worker  per worker: where it is in process_message, its text,    *)
(*                its ConversationState, the flow and step it found        *)
(***************************************************************************)
Messages == {"yes"} \cup DenialKeywords

\* a caller with an account whose balance is not cached
Caller == [NewState EXCEPT !.lang = "en", !.account_id = ACCOUNT_ID, !.account_exists = TRUE,
                           !.phone_checked = TRUE]

\* a caller without an account, the phone number checked
Applicant == [NewState EXCEPT !.lang = "en", !.phone_checked = TRUE]

\* an account creation and the money flows waiting for their confirmation,
\* as their steps leave them
AtConfirm ==
    {next_step(add_data(add_data(add_data(add_data(add_data(
                   start_flow(Applicant, "account_creation", "ask_name"),
                   "full_name", "Yes"), "age", 100), "sex", "M"),
                   "groupement_id", 1), "groupement_name", GROUPEMENTS[1].label),
               "confirm"),
     next_step(add_data(start_flow(Caller, "withdrawal", "ask_amount"), "amount", 5000),
               "confirm"),
     next_step(add_data(start_flow(Caller, "topup", "ask_amount"), "amount", 5000),
               "confirm"),
     next_step(add_data(add_data(add_data(start_flow(Caller, "transfer", "ask_receiver"),
                                          "receiverPhoneNumber", "690123456"),
                                 "amount", "5000"),
                        "pin", "5000"),
               "confirm")}

\* what the backend answers to a caller who has an account
CallerOutcomes == {o \in Outcomes : o.exists /\ o.profile = "account"}

ConcUnchanged == <<state, store, account, checked, turn, pinned, now, io, otp_key,
                   verify, otp_log, fraud, vel, orch, req, cls, nlu>>

\* process_message up to store.get: the worker builds its state from the store
Receive(w) ==
    \E text \in Messages :
    \E s \in {IF conc.store = << >> THEN NewState ELSE from_dict(conc.store[1])} :
    \E st \in {IF s.lang = NoLang THEN [s EXCEPT !.lang = Parse[text].lang] ELSE s} :
        /\ conc.worker[w].pc = "idle"
        /\ conc' = [conc EXCEPT !.worker[w] =
                        [pc |-> "loaded", text |-> text, st |-> st,
                         pre_flow |-> st.flow_type, pre_step |-> st.flow_step]]
        /\ UNCHANGED ConcUnchanged

\* in a flow: flow.process, then flow.complete up to its backend call when
\* process reports completion
Process(w) ==
    /\ conc.worker[w].pc = "loaded"
    /\ is_in_flow(conc.worker[w].st)
    /\ \E me \in {conc.worker[w]} :
       \E r \in {FlowProcess(me.st, me.text)} :
           /\ conc' = [conc EXCEPT !.worker[w].st = r.st,
                                    !.worker[w].pc = IF r.done THEN "calling" ELSE "saving"]
           /\ UNCHANGED ConcUnchanged

\* not in a flow: classify and _handle_intent
Classified(w) ==
    /\ conc.worker[w].pc = "loaded"
    /\ ~is_in_flow(conc.worker[w].st)
    /\ \E me \in {conc.worker[w]} :
       \E intent \in {Parse[me.text].intent} :
       \E o \in IF intent \in (FlowType \ {"none"}) \cup {"view_account", "balance_inquiry",
                                                            "transaction_history"}
                 THEN {x \in CallerOutcomes : x.action = "ok"}
                 ELSE {NoOutcome} :
       \E h \in {_handle_intent(me.st, intent, o)} :
           /\ conc' = [conc EXCEPT !.worker[w].st = h.st,
                                    !.worker[w].pc = IF h.raised THEN "done" ELSE "saving"]
           /\ UNCHANGED ConcUnchanged

\* the backend answers the call of flow.complete; an answer that is not an
\* error means the backend has moved the money
Completes(w) ==
    /\ conc.worker[w].pc = "calling"
    /\ \E me \in {conc.worker[w]} :
       \E o \in IF me.pre_flow = "account_creation" THEN Outcomes ELSE CallerOutcomes :
       \E c \in {FlowComplete(me.pre_flow, me.st, o)} :
           /\ conc' = [conc EXCEPT
                           !.moved = IF o.action = "ok"
                                        /\ me.pre_flow \in {"withdrawal", "topup", "transfer"}
                                     THEN @ + 1 ELSE @,
                           !.worker[w].st = c.st,
                           !.worker[w].pc = "saving"]
           /\ UNCHANGED ConcUnchanged

\* store.save(state) ends process_message
SaveState(w) ==
    /\ conc.worker[w].pc = "saving"
    /\ conc' = [conc EXCEPT !.store = <<to_dict(conc.worker[w].st)>>,
                             !.worker[w].pc = "done"]
    /\ UNCHANGED ConcUnchanged

ConcNext ==
    \E w \in Workers :
        Receive(w) \/ Process(w) \/ Classified(w) \/ Completes(w) \/ SaveState(w)

\* a flow waits for its confirmation when the two messages arrive
ConcInit ==
    /\ Start
    /\ fraud = NoFraud
    /\ orch = NoOrch(0)
    /\ \E s \in AtConfirm :
           /\ conc = [NoConc EXCEPT !.store = <<to_dict(s)>>]
           /\ account = s.account_exists

ConcSpec == ConcInit /\ [][ConcNext]_vars

\* C37: when two messages of one conversation are processed concurrently
\* while a money flow waits at Confirm, the backend executes the confirmed
\* movement at most once.
C37_MovedAtMostOnce == conc.moved <= 1

\* C39: is_confirmation reads every keyword of its denials list, given as the
\* whole answer, as a denial, so a Confirm step of the AccountCreation,
\* Withdrawal or TopUp flow answered with such a keyword does not complete
\* the flow.
C39_DenialNeverCompletes ==
    \A w \in Workers :
        (/\ conc.worker[w].text \in DenialKeywords
         /\ conc.worker[w].pre_flow \in {"account_creation", "withdrawal", "topup"}
         /\ conc.worker[w].pre_step = "confirm")
            => /\ is_confirmation(conc.worker[w].text) = "no"
               /\ conc.worker[w].pc # "calling"

\* C36: in the PasswordChange flow a confirmation that does not match the new
\* password consumes the attempt budget: when the flow goes back to
\* ASK_NEW_PASSWORD after a mismatch, at least one attempt stays counted, so
\* that max_attempts mismatches end the flow.
C36_MismatchConsumesBudget ==
    (/\ turn.kind = "flow"
     /\ turn.pre_flow = "password_change"
     /\ turn.pre_step = "confirm_password"
     /\ AtStep("password_change", "ask_new_password"))
        => state.attempts >= 1

\* C40: a message that finds a flow active is handed to that flow and is not
\* intent-classified, and leaves the conversation in that flow or in none; a
\* flow of another type begins only from a conversation without a flow, with
\* a step, empty collected_data and attempts = 0.
C40_FlowTypeOnlyViaNone ==
    turn.kind # "init" =>
        /\ turn.pre_flow # "none" =>
               /\ turn.kind = "flow"
               /\ turn.intent = ""
               /\ state.flow_type \in {turn.pre_flow, "none"}
        /\ state.flow_type \notin {turn.pre_flow, "none"} =>
               /\ turn.pre_flow = "none"
               /\ turn.kind = "intent"
               /\ state.flow_step # NoStep
               /\ DOMAIN state.collected_data = {}
               /\ state.attempts = 0

\* a transfer keeps the conversation although the text did not name a receiver
C40_Witness ==
    /\ turn.kind = "flow"
    /\ turn.pre_flow = "transfer"
    /\ turn.pre_step = "ask_receiver"
    /\ AtStep("transfer", "ask_receiver")
    /\ state.attempts = 1
====
